---- MODULE Spec2Model ----
(***************************************************************************)
(* State-machine model of the news ingestion / filter / signal pipeline:   *)
(* the processing lock, the day-bounded signal insertion, the per-cycle    *)
(* orchestrator with its two dedup levels, and the LLM circuit breaker.    *)
(* Time is counted in minutes.  Every database transaction (one            *)
(* `async with get_session()` block ending in commit) is one step.         *)
(***************************************************************************)
EXTENDS Integers, Sequences, FiniteSets, TLC

VARIABLES
    now,        \* wall clock, minutes (datetime.utcnow())
    lock,       \* the processing_locks row named "processing"
    lkpc,       \* per instance: position inside LockRepository.acquire / the holder's life
    lknow,      \* per instance: the `now` captured at the top of acquire
    lkbranch,   \* per instance: branch taken after the SELECT ("update" / "insert")
    lkres,      \* per instance: what acquire produced ("true", "false", "raised", "none")
    lkraced,    \* history: two acquires passed the expiry check before either wrote
    signals,    \* the signals table, in insertion order (id = position)
    tcpc,       \* per caller: position inside try_create_if_under_limit
    tccount,    \* per caller: current_count read by the SELECT count
    tcsent,     \* per caller: sent_at of the signal_data it was called with
    tcres,      \* per caller: "signal", "null" or "none" (not returned yet)
    news,       \* the news table, in insertion order (id = position); alive = not deleted
    pc,         \* orchestrator position: "idle", "dedup", "persist", "classify", "signal";
                \* "raised" = idle after an invocation that ended by an exception
    raw_items,  \* fetched items of this cycle the first loop has still to visit
    new_items,  \* items that passed URL, freshness and simhash dedup in this cycle and
                \* that the second loop has still to visit
    hash_cache, \* Deduplicator._hash_cache: (news_id, simhash) pairs
    cur_id,     \* news_id of the item being processed (0 = none)
    llm,        \* the cycle's OpenRouterClient throttle state
    pending,    \* signal_data of the approved item awaiting the signal transaction
    ticks,      \* number of clock advances so far
    broadcasts, \* history: news ids whose signal was handed to the broadcaster
    cycle_ids,  \* history: news ids inserted by the current cycle
    http500_streak, \* history: consecutive LLM HTTP responses with status 500 in the running cycle
    limit_reached_for, \* history: ids approved by the thresholds while today's (app timezone) count was at the limit
    last_gate,  \* history: what the step just taken was, where a property has to know it:
                \* a rejection at the freshness or resolved gate, an item met while
                \* the LLM was unavailable or whose call hit the billing limit, a
                \* retention run, or an invocation that found the lock held
    cb_errors,  \* CircuitBreaker._errors
    cb_is_open, \* CircuitBreaker._is_open
    cb_last_error_at, \* CircuitBreaker._last_error_at (-1 = None)
    cb_log,     \* history: times of the record_error calls since the circuit last closed
    llm_usage,  \* the llm_usage table (the usage ledger), in insertion order
    noise_filter_enabled, \* config.noise_filter.enabled
    broadcaster, \* the cycles are called with a Broadcaster (FALSE = None, the default)
    f1_call,    \* arguments of one call of KeywordFilter.should_send_to_llm
    f1_ret,     \* what that call returned
    dec_call,   \* arguments of one call of decide
    dec_ret,    \* what that call returned
    url_call,   \* argument of one call of normalize_url
    url_ret,    \* what that call returned
    an_call,    \* client state and provider answers of one call of analyze
    an_ret,     \* what that call returned, and the requests it sent
    health,     \* the source_health table: source id -> row
    fail_run,   \* history: record_failure calls per source since its last record_success
    health_last, \* history: the operation of the step just taken, where a property needs it
    fetch_call, \* per source, what its HTTP fetch met in one run of the cycle's fetch stage
    fetch_ret,  \* what the fetch stage produced
    subscribers, \* the subscribers table: chat id -> "none" (no row), "active", "inactive"
    bc_last,    \* history: the delivery of the step just taken (recipients, what each
                \* send met, the chats a send was attempted to)
    incidents,  \* the incidents table, in insertion order (id = position)
    inc_attached, \* history: per incident id, the process_signal calls that returned it
    inc_last,   \* history: the process_signal call of the step just taken
    fr_call,    \* arguments of one call of check_freshness
    fr_ret      \* what that call returned

lockVars == <<lock, lkpc, lknow, lkbranch, lkres, lkraced>>
limitVars == <<tcpc, tccount, tcsent, tcres>>

pipeVars == <<news, pc, raw_items, new_items, hash_cache, cur_id, llm, pending,
              ticks, broadcasts, cycle_ids, http500_streak, limit_reached_for, last_gate>>

cbVars == <<cb_errors, cb_is_open, cb_last_error_at, cb_log, llm_usage>>

pureVars == <<f1_call, f1_ret, dec_call, dec_ret, url_call, url_ret, an_call, an_ret>>

healthVars == <<health, fail_run, health_last>>

fetchVars == <<fetch_call, fetch_ret>>
deliveryVars == <<subscribers, bc_last>>
incidentVars == <<incidents, inc_attached, inc_last>>

freshVars == <<fr_call, fr_ret>>

edgeVars == <<fetchVars, deliveryVars, incidentVars, freshVars>>

vars == <<now, lockVars, signals, limitVars, pipeVars, cbVars, noise_filter_enabled, broadcaster, pureVars, healthVars, edgeVars>>

(***************************************************************************)
(* Bounds                                                                  *)
(***************************************************************************)
NumInstances == 2
MaxLockNow == 12
MaxSignalsPerDay == 1
MaxSignalRows == 3
MaxLimitDays == 2
MaxNews == 2
MaxBatch == 2
MaxTicks == 2
StartNow == 1200
MaxLLMNews == 7
MaxCbNow == 12
MaxCbLog == 6
MaxLedger == 3
MaxBudgetTicks == 2
NumSubscribers == 1

Instances == 1..NumInstances

(***************************************************************************)
(* Processing lock (repo.py LockRepository, main.py process_news_cycle)    *)
(***************************************************************************)
LockDurationMinutes == 10

NoLock == [present |-> FALSE, expires_at |-> 0, instance_id |-> 0]

LockRow(t, who) ==
    [present |-> TRUE, expires_at |-> t + LockDurationMinutes, instance_id |-> who]

\* A lock row that never expires.
LockStillValidForever(row, t) == row.present

\* `if lock: if lock.expires_at > now: return False`
LockStillValid(row, t) == row.present /\ row.expires_at > t

\* First half of acquire: now = utcnow(); SELECT the row; decide the branch.
LockAcquireSelect(p) ==
    /\ lkpc[p] = "idle"
    /\ lknow' = [lknow EXCEPT ![p] = now]
    /\ IF LockStillValid(lock, now)
         THEN /\ lkres' = [lkres EXCEPT ![p] = "false"]
              /\ lkpc' = [lkpc EXCEPT ![p] = "done"]
              /\ UNCHANGED <<lkbranch, lkraced>>
         ELSE /\ lkbranch' = [lkbranch EXCEPT ![p] = IF lock.present THEN "update" ELSE "insert"]
              /\ lkpc' = [lkpc EXCEPT ![p] = "checked"]
              /\ lkres' = [lkres EXCEPT ![p] = "none"]
              /\ lkraced' = (lkraced \/ \E q \in Instances \ {p} : lkpc[q] = "checked")
    /\ UNCHANGED <<now, lock, signals, limitVars, pipeVars, cbVars, noise_filter_enabled, broadcaster, pureVars, healthVars, edgeVars>>

\* Second half of acquire: the UPDATE or INSERT is flushed and the caller
\* commits.  An INSERT on an existing primary key and an UPDATE of a row that
\* has vanished both raise out of flush().
LockAcquireFlush(p) ==
    /\ lkpc[p] = "checked"
    /\ IF (lkbranch[p] = "insert" /\ lock.present) \/ (lkbranch[p] = "update" /\ ~lock.present)
         THEN /\ lkres' = [lkres EXCEPT ![p] = "raised"]
              /\ lkpc' = [lkpc EXCEPT ![p] = "done"]
              /\ UNCHANGED lock
         ELSE /\ lock' = LockRow(lknow[p], p)
              /\ lkres' = [lkres EXCEPT ![p] = "true"]
              /\ lkpc' = [lkpc EXCEPT ![p] = "held"]
    /\ UNCHANGED <<now, lknow, lkbranch, lkraced, signals, limitVars, pipeVars, cbVars, noise_filter_enabled, broadcaster, pureVars, healthVars, edgeVars>>

\* release(name): DELETE by name, committed by the holder's finally block.
LockRelease(p) ==
    /\ lkpc[p] = "held"
    /\ lock' = NoLock
    /\ lkpc' = [lkpc EXCEPT ![p] = "done"]
    /\ UNCHANGED <<now, lknow, lkbranch, lkres, lkraced, signals, limitVars, pipeVars, cbVars, noise_filter_enabled, broadcaster, pureVars, healthVars, edgeVars>>

\* The instance forgets the previous outcome (and the locals of its acquire
\* call) and may run another cycle.  A holder that is killed never reaches
\* its finally block: its row stays.
LockNextCycle(p) ==
    /\ lkpc[p] \in {"done", "held"}
    /\ \A q \in Instances : lkpc[q] # "checked"
    /\ lkpc' = [lkpc EXCEPT ![p] = "idle"]
    /\ lkres' = [lkres EXCEPT ![p] = "none"]
    /\ lknow' = [lknow EXCEPT ![p] = 0]
    /\ lkbranch' = [lkbranch EXCEPT ![p] = "insert"]
    /\ lkraced' = FALSE
    /\ UNCHANGED <<now, lock, signals, limitVars, pipeVars, cbVars, noise_filter_enabled, broadcaster, pureVars, healthVars, edgeVars>>

\* Time passes: half the lock duration, or all of it.
LockTick ==
    /\ now < MaxLockNow
    /\ \E d \in {LockDurationMinutes \div 2, LockDurationMinutes} : now' = now + d
    /\ UNCHANGED <<lockVars, signals, limitVars, pipeVars, cbVars, noise_filter_enabled, broadcaster, pureVars, healthVars, edgeVars>>

LockVarsInit ==
    /\ lock = NoLock
    /\ lkpc = [p \in Instances |-> "idle"]
    /\ lknow = [p \in Instances |-> 0]
    /\ lkbranch = [p \in Instances |-> "insert"]
    /\ lkres = [p \in Instances |-> "none"]
    /\ lkraced = FALSE

FreshClient ==
    [requests_this_cycle |-> 0, consecutive_429 |-> 0,
     disabled_for_cycle |-> FALSE, last_error_code |-> "none"]

NoGate == [code |-> "none", id |-> 0, url |-> 0]

RetentionRun == [code |-> "RETENTION_RUN", id |-> 0, url |-> 0]

LockHeld == [code |-> "lock_held", id |-> 0, url |-> 0]

NoPending == [event_type |-> "none", region |-> 0, object_type |-> "none"]

PipeVarsInit ==
    /\ news = <<>>
    /\ pc = "idle"
    /\ raw_items = <<>>
    /\ new_items = <<>>
    /\ hash_cache = <<>>
    /\ cur_id = 0
    /\ llm = FreshClient
    /\ pending = NoPending
    /\ ticks = 0
    /\ broadcasts = {}
    /\ cycle_ids = {}
    /\ http500_streak = 0
    /\ limit_reached_for = {}
    /\ last_gate = NoGate

CbVarsInit ==
    /\ cb_errors = <<>>
    /\ cb_is_open = FALSE
    /\ cb_last_error_at = -1
    /\ cb_log = <<>>
    /\ llm_usage = <<>>

\* No call of should_send_to_llm or decide made, nothing returned.
NoCall == [made |-> FALSE]

NoReturn == [returned |-> FALSE]

\* The sources of config.sources, and the empty source_health table.
Sources == {"rss_a", "rss_b"}

NoOp == [op |-> "none", sources |-> {}]

HealthVarsInit ==
    LET
        NoHealth == [present |-> FALSE, consecutive_failures |-> 0, is_disabled |-> FALSE,
                     disabled_at |-> -1]
    IN
        /\ health = [s \in Sources |-> NoHealth]
        /\ fail_run = [s \in Sources |-> 0]
        /\ health_last = NoOp

MaxChats == 2

Chats == 1..MaxChats

NoDelivery == [op |-> "none"]

DeliveryVarsInit ==
    /\ subscribers = [c \in Chats |-> "none"]
    /\ bc_last = NoDelivery

FreshVarsInit ==
    /\ fr_call = NoCall
    /\ fr_ret = NoReturn

IncidentVarsInit ==
    /\ incidents = <<>>
    /\ inc_attached = <<>>
    /\ inc_last = NoCall

EdgeVarsInit ==
    /\ fetch_call = NoCall
    /\ fetch_ret = NoReturn
    /\ DeliveryVarsInit
    /\ IncidentVarsInit
    /\ FreshVarsInit

PureVarsInit ==
    /\ f1_call = NoCall
    /\ f1_ret = NoReturn
    /\ dec_call = NoCall
    /\ dec_ret = NoReturn
    /\ url_call = NoCall
    /\ url_ret = NoReturn
    /\ an_call = NoCall
    /\ an_ret = NoReturn

LimitVarsInit ==
    /\ tcpc = [p \in Instances |-> "idle"]
    /\ tccount = [p \in Instances |-> 0]
    /\ tcsent = [p \in Instances |-> 0]
    /\ tcres = [p \in Instances |-> "none"]

LockInit ==
    /\ now = 0
    /\ LockVarsInit
    /\ signals = <<>>
    /\ LimitVarsInit
    /\ PipeVarsInit
    /\ CbVarsInit
    /\ noise_filter_enabled = TRUE
    /\ broadcaster = TRUE
    /\ PureVarsInit
    /\ HealthVarsInit
    /\ EdgeVarsInit

LockNext ==
    \/ \E p \in Instances : LockAcquireSelect(p)
    \/ \E p \in Instances : LockAcquireFlush(p)
    \/ \E p \in Instances : LockRelease(p)
    \/ \E p \in Instances : LockNextCycle(p)
    \/ LockTick

SpecLock == LockInit /\ [][LockNext]_vars

\* C1 (as claimed): two acquire calls for the same name whose read-check-write
\* steps interleave, with no row or an expired row present, end with exactly
\* one "true" and one "false".
C1_ExactlyOneAcquires ==
    \A p, q \in Instances :
        (p # q /\ lkraced /\ lkres[p] # "none" /\ lkres[q] # "none"
              /\ lkpc[p] # "checked" /\ lkpc[q] # "checked")
            => ((lkres[p] = "true" /\ lkres[q] = "false")
                \/ (lkres[p] = "false" /\ lkres[q] = "true"))

(***************************************************************************)
(* Day-bounded signal insertion (repo.py SignalRepository)                 *)
(***************************************************************************)
DayMinutes == 1440
\* settings.app_timezone defaults to Asia/Yekaterinburg, UTC+5
AppTzOffsetMinutes == 300
UtcOffsetMinutes == 0

\* now(tz).replace(hour=0, ...).astimezone(UTC): the start of the local day
\* that contains instant t, as a naive UTC instant.
TodayStartUtc(t, off) == ((t + off) \div DayMinutes) * DayMinutes - off

\* select count(Signal.id) where Signal.sent_at >= today_start_utc
CountSince(sigs, start) == Cardinality({i \in DOMAIN sigs : sigs[i].sent_at >= start})

SignalRow(nid, t, ev, reg, obj) ==
    [news_id |-> nid, sent_at |-> t, event_type |-> ev, region |-> reg, object_type |-> obj,
     recipients_count |-> 0, feedback_score |-> 0]

\* try_create_if_under_limit, first statement: the SELECT count.
TryCreateCount(p) ==
    /\ tcpc[p] = "idle"
    /\ Len(signals) < MaxSignalRows
    /\ tcsent' = [tcsent EXCEPT ![p] = now]
    /\ tccount' = [tccount EXCEPT ![p] = CountSince(signals, TodayStartUtc(now, AppTzOffsetMinutes))]
    /\ tcpc' = [tcpc EXCEPT ![p] = "counted"]
    /\ tcres' = [tcres EXCEPT ![p] = "none"]
    /\ UNCHANGED <<now, lockVars, signals, pipeVars, cbVars, noise_filter_enabled, broadcaster, pureVars, healthVars, edgeVars>>

\* try_create_if_under_limit, the rest: compare, INSERT, flush; the caller commits.
TryCreateInsert(p) ==
    /\ tcpc[p] = "counted"
    /\ IF tccount[p] >= MaxSignalsPerDay
         THEN /\ tcres' = [tcres EXCEPT ![p] = "null"]
              /\ UNCHANGED signals
         ELSE /\ signals' = Append(signals,
                                   SignalRow(Len(signals) + 1, tcsent[p], "accident", 0, "water"))
              /\ tcres' = [tcres EXCEPT ![p] = "signal"]
    /\ tcpc' = [tcpc EXCEPT ![p] = "idle"]
    /\ UNCHANGED <<now, lockVars, tccount, tcsent, pipeVars, cbVars, noise_filter_enabled, broadcaster, pureVars, healthVars, edgeVars>>

LimitTick ==
    /\ now < MaxLimitDays * DayMinutes
    /\ now' = now + DayMinutes
    /\ UNCHANGED <<lockVars, signals, limitVars, pipeVars, cbVars, noise_filter_enabled, broadcaster, pureVars, healthVars, edgeVars>>

LimitInit ==
    /\ now = 0
    /\ LockVarsInit
    /\ signals = <<>>
    /\ LimitVarsInit
    /\ PipeVarsInit
    /\ CbVarsInit
    /\ noise_filter_enabled = TRUE
    /\ broadcaster = TRUE
    /\ PureVarsInit
    /\ HealthVarsInit
    /\ EdgeVarsInit

LimitNext ==
    \/ \E p \in Instances : TryCreateCount(p)
    \/ \E p \in Instances : TryCreateInsert(p)
    \/ LimitTick

SpecLimit == LimitInit /\ [][LimitNext]_vars

\* C2 (as claimed): with concurrent try_create_if_under_limit calls the number
\* of Signal rows of the current day never exceeds max_per_day.
C2_DailyLimitNeverExceeded ==
    CountSince(signals, TodayStartUtc(now, AppTzOffsetMinutes)) <= MaxSignalsPerDay

(***************************************************************************)
(* Deduplicator (dedup.py) and the news table (repo.py NewsRepository)     *)
(***************************************************************************)
SimhashThreshold == 3
RecentHashHours == 72
RetentionDays == 30
SimilarHours == 24
MaxProcessingBatch == 100

Batches ==
    LET
        \* The fetched items, by normalized URL and simhash.  Hash 0 is the "0" string
        \* compute_simhash returns for empty text; 5 and 7 differ in one bit, 250
        \* differs from both in more than SimhashThreshold bits.
        Items ==
            {[url |-> 1, simhash |-> 5], [url |-> 1, simhash |-> 250],
             [url |-> 2, simhash |-> 7], [url |-> 2, simhash |-> 250]}
    IN
        {b \in UNION {[1..n -> Items] : n \in 1..MaxBatch} : TRUE}

\* hamming_distance: population count of v1 XOR v2.
RECURSIVE HammingDistance(_, _)
HammingDistance(v1, v2) ==
    IF v1 = 0 /\ v2 = 0 THEN 0
    ELSE (IF v1 % 2 # v2 % 2 THEN 1 ELSE 0) + HammingDistance(v1 \div 2, v2 \div 2)

\* is_duplicate_by_simhash: id of the first cached entry within the threshold,
\* 0 (None) if there is none or the new hash is "0".
IsDuplicateBySimhash(new_hash, cache, threshold) ==
    LET
        MinOf(S) == CHOOSE x \in S : \A y \in S : x <= y
    IN
        IF new_hash = 0 THEN 0
        ELSE LET hits == {k \in DOMAIN cache :
                             /\ cache[k].simhash # 0
                             /\ HammingDistance(new_hash, cache[k].simhash) <= threshold}
             IN  IF hits = {} THEN 0 ELSE cache[MinOf(hits)].id

\* NewsRepository.url_exists
UrlExists(rows, u) == \E i \in DOMAIN rows : rows[i].alive /\ rows[i].url = u

\* NewsRepository.get_recent_simhashes(hours=72), in id order
RecentSimhashes(rows, t) ==
    LET keep(i) == rows[i].alive /\ rows[i].collected_at >= t - RecentHashHours * 60
        ids == SelectSeq([i \in DOMAIN rows |-> i], keep)
    IN  [k \in DOMAIN ids |-> [id |-> ids[k], simhash |-> rows[ids[k]].simhash]]

\* The duplicate row stored without its canonical reference.
DuplicateRowNoCanonical(item, canonical, t) ==
    [url |-> item.url, simhash |-> item.simhash, collected_at |-> t,
     status |-> "duplicate", canonical_news_id |-> 0, alive |-> TRUE]

\* The row written for a near-duplicate (main.py:153-164)
DuplicateRow(item, canonical, t) ==
    [url |-> item.url, simhash |-> item.simhash, collected_at |-> t,
     status |-> "duplicate", canonical_news_id |-> canonical, alive |-> TRUE]

\* The row written for a unique item (main.py:215-226)
RawRow(item, t) ==
    [url |-> item.url, simhash |-> item.simhash, collected_at |-> t,
     status |-> "raw", canonical_news_id |-> 0, alive |-> TRUE]

\* NewsRepository.update_status: only the status column matters here.
UpdateStatus(rows, id, st) == [rows EXCEPT ![id].status = st]

\* NewsRepository.cleanup_old_news(days=30)
CleanupOldNews(rows, t) ==
    LET
        DeletableStatuses ==
            {"raw", "filtered", "duplicate", "filtered_old", "filtered_resolved",
             "filtered_noise", "llm_failed", "llm_skipped"}
    IN
        [i \in DOMAIN rows |->
            IF rows[i].alive /\ rows[i].collected_at < t - RetentionDays * DayMinutes
                             /\ rows[i].status \in DeletableStatuses
              THEN [rows[i] EXCEPT !.alive = FALSE]
              ELSE rows[i]]

(***************************************************************************)
(* LLM client throttle (llm.py OpenRouterClient) and decision (decision.py)*)
(***************************************************************************)
MaxRequestsPerCycle == 30
MaxConsecutive429 == 3
\* thresholds in tenths: llm_relevance 0.6, llm_urgency 3
RelevanceThreshold == 6
UrgencyThreshold == 3

NoResponse == [valid |-> FALSE, event_type |-> "none", relevance |-> 0, urgency |-> 0,
               object |-> "none", action |-> "none"]

\* What the provider does with one request: HTTP status and, for 200, the body.
HttpOutcomes ==
    LET
        \* A response that passes every threshold, and one failing each of them.
        LLMResponses ==
            {[valid |-> TRUE, event_type |-> "accident", relevance |-> r[1], urgency |-> r[2],
              object |-> "water", action |-> r[3]] :
                r \in {<<6, 3, "call">>, <<5, 3, "call">>, <<6, 2, "call">>, <<6, 3, "ignore">>}}
    IN
        {[code |-> c, body |-> NoResponse] : c \in {429, 402, 500, 0}}
            \cup {[code |-> 200, body |-> r] : r \in LLMResponses \cup {NoResponse}}

\* OpenRouterClient.is_available
IsAvailable(c) ==
    IF c.disabled_for_cycle
      THEN [ok |-> FALSE,
            reason |-> IF c.last_error_code # "none" THEN c.last_error_code ELSE "LLM_DISABLED"]
    ELSE IF c.requests_this_cycle >= MaxRequestsPerCycle
      THEN [ok |-> FALSE, reason |-> "LLM_CYCLE_LIMIT"]
    ELSE IF c.consecutive_429 >= MaxConsecutive429
      THEN [ok |-> FALSE, reason |-> "LLM_RATE_LIMIT_EXCEEDED"]
    ELSE [ok |-> TRUE, reason |-> "none"]

\* OpenRouterClient._call_api with the provider answering `o` (code 0 = timeout).
\* Result: the client afterwards, the parsed response, the error code and
\* whether an HTTP request went out.
CallApi(c, o) ==
    LET avail == IsAvailable(c)
        c1 == [c EXCEPT !.requests_this_cycle = @ + 1]
    IN  IF ~avail.ok
          THEN [client |-> c, response |-> NoResponse, error |-> avail.reason, sent |-> FALSE]
        ELSE IF o.code = 429
          THEN LET n == c1.consecutive_429 + 1
               IN [client |-> [c1 EXCEPT !.consecutive_429 = n,
                                         !.last_error_code =
                                             IF n >= MaxConsecutive429
                                               THEN "LLM_RATE_LIMIT_EXCEEDED" ELSE @],
                   response |-> NoResponse, error |-> "LLM_RATE_LIMIT", sent |-> TRUE]
        ELSE IF o.code = 402
          THEN [client |-> [c1 EXCEPT !.disabled_for_cycle = TRUE,
                                      !.last_error_code = "LLM_BILLING_LIMIT"],
                response |-> NoResponse, error |-> "LLM_BILLING_LIMIT", sent |-> TRUE]
        ELSE IF o.code = 0
          THEN [client |-> c1, response |-> NoResponse, error |-> "LLM_TIMEOUT", sent |-> TRUE]
        ELSE IF o.code # 200
          THEN [client |-> c1, response |-> NoResponse, error |-> "LLM_API_ERROR", sent |-> TRUE]
        ELSE IF ~o.body.valid
          THEN [client |-> [c1 EXCEPT !.consecutive_429 = 0],
                response |-> NoResponse, error |-> "LLM_INVALID_JSON", sent |-> TRUE]
        ELSE [client |-> [c1 EXCEPT !.consecutive_429 = 0],
              response |-> o.body, error |-> "none", sent |-> TRUE]

\* analyze that retries after every failure that is not a rate or billing limit.
RetriesAfterAnyFailure(error_code) ==
    error_code \in {"LLM_INVALID_JSON", "LLM_API_ERROR", "LLM_TIMEOUT"}

\* `if error_code == "LLM_INVALID_JSON"` (llm.py:116)
RetriesAfter(error_code) == error_code = "LLM_INVALID_JSON"

\* OpenRouterClient.analyze: one call, and one retry after LLM_INVALID_JSON.
Analyze(c, o1, o2) ==
    LET first == CallApi(c, o1)
    IN  IF RetriesAfter(first.error) THEN CallApi(first.client, o2) ELSE first

\* The HTTP requests one analyze() sends: the model each names, and whether
\* its prompt carries the strict-JSON instruction (llm.py:118).
AnalyzeRequests(c, o1, o2) ==
    LET
        \* settings.openrouter_model, the one model the client is built with.
        Model == "openrouter_model"
    IN
        LET first == CallApi(c, o1)
        IN  (IF first.sent THEN <<[model |-> Model, strict_json |-> FALSE]>> ELSE <<>>)
              \o (IF RetriesAfter(first.error) /\ CallApi(first.client, o2).sent
                    THEN <<[model |-> Model, strict_json |-> TRUE]>> ELSE <<>>)

StreakAfter(streak, c, o1, o2) ==
    LET
        \* Consecutive-500 history after one request.
        StreakAfterCall(s, cl, o) ==
            IF ~IsAvailable(cl).ok THEN s ELSE IF o.code = 500 THEN s + 1 ELSE 0
        first == CallApi(c, o1)
        s1 == StreakAfterCall(streak, c, o1)
    IN
        IF RetriesAfter(first.error) THEN StreakAfterCall(s1, first.client, o2) ELSE s1

\* SignalDecision (decision.py:11-16); reason holds the part of the reason
\* string before the formatted numbers.
SignalDecision(should_send, reason, suppressed) ==
    [should_send |-> should_send, reason |-> reason, suppressed |-> suppressed]

\* decide with the daily limit tested before the action.
DecideLimitBeforeAction(resp, filter1_passed, signals_today) ==
    IF ~filter1_passed THEN SignalDecision(FALSE, "filter1_rejected", FALSE)
    ELSE IF ~resp.valid THEN SignalDecision(FALSE, "llm_failed", FALSE)
    ELSE IF resp.relevance < RelevanceThreshold THEN SignalDecision(FALSE, "low_relevance", FALSE)
    ELSE IF resp.urgency < UrgencyThreshold THEN SignalDecision(FALSE, "low_urgency", FALSE)
    ELSE IF signals_today >= MaxSignalsPerDay
      THEN SignalDecision(FALSE, "daily_limit_reached", TRUE)
    ELSE IF resp.action = "ignore" THEN SignalDecision(FALSE, "llm_action_ignore", FALSE)
    ELSE SignalDecision(TRUE, "approved", FALSE)

\* decision.decide; llm_response None is the response with valid = FALSE, and
\* max_signals_per_day and the two thresholds are the configured ones.
Decide(resp, filter1_passed, signals_today) ==
    IF ~filter1_passed THEN SignalDecision(FALSE, "filter1_rejected", FALSE)
    ELSE IF ~resp.valid THEN SignalDecision(FALSE, "llm_failed", FALSE)
    ELSE IF resp.relevance < RelevanceThreshold THEN SignalDecision(FALSE, "low_relevance", FALSE)
    ELSE IF resp.urgency < UrgencyThreshold THEN SignalDecision(FALSE, "low_urgency", FALSE)
    ELSE IF resp.action = "ignore" THEN SignalDecision(FALSE, "llm_action_ignore", FALSE)
    ELSE IF signals_today >= MaxSignalsPerDay
      THEN SignalDecision(FALSE, "daily_limit_reached", TRUE)
    ELSE SignalDecision(TRUE, "approved", FALSE)

\* decision.get_status_from_decision
GetStatusFromDecision(d, llm_failed) ==
    IF llm_failed THEN "llm_failed"
    ELSE IF d.should_send THEN "sent"
    ELSE IF d.suppressed THEN "suppressed_limit"
    ELSE "filtered"

\* The LLM thresholds of decide, without the daily limit.
PassesThresholds(resp) ==
    /\ resp.valid
    /\ resp.relevance >= RelevanceThreshold
    /\ resp.urgency >= UrgencyThreshold
    /\ resp.action # "ignore"

\* SignalRepository.find_similar_recent(hours=24): is there a match
FindSimilarRecent(sigs, ev, reg, obj, t) ==
    \E i \in DOMAIN sigs :
        /\ sigs[i].sent_at >= t - SimilarHours * 60
        /\ sigs[i].event_type = ev
        /\ (reg # 0 => sigs[i].region = reg)
        /\ sigs[i].object_type = obj

(***************************************************************************)
(* Freshness gate (freshness.py)                                           *)
(***************************************************************************)
MaxAgeDays == 2

\* check_freshness.  published is the feed's date: present or not, its true
\* age in minutes at the moment of the check, and the UTC offset it carries
\* (parse_rss_date keeps the offset of the feed).  The offset is dropped with
\* replace(tzinfo=None), not converted, so the age compared is the true age
\* minus the offset.  collected_age is the age of collected_at.  The result's
\* age is in minutes, -1 = None.
CheckFreshnessWith(published, collected_age, max_age_days, allow_missing_published_at, fallback_to_collected_at) ==
    LET has_date == published.present \/ (allow_missing_published_at /\ fallback_to_collected_at)
        age == IF published.present THEN published.age - published.utcoffset
               ELSE collected_age
    IN  IF ~has_date /\ ~allow_missing_published_at
          THEN [passed |-> FALSE, decision_code |-> "MISSING_PUBLISHED_AT", age |-> -1]
        ELSE IF ~has_date
          THEN [passed |-> TRUE, decision_code |-> "PASSED", age |-> 0]
        ELSE IF age > max_age_days * DayMinutes
          THEN [passed |-> FALSE, decision_code |-> "STALE_NEWS", age |-> age]
        ELSE [passed |-> TRUE, decision_code |-> "PASSED", age |-> age]

\* check_freshness as process_news_cycle calls it, with the configuration at
\* its defaults and a date that carries the offset 0: a missing date falls
\* back to collected_at = now.
CheckFreshness(age) ==
    CheckFreshnessWith([present |-> age # -1, age |-> age, utcoffset |-> 0], 0, MaxAgeDays,
                       TRUE, TRUE)

(***************************************************************************)
(* The orchestrator (main.py process_news_cycle), one instance             *)
(***************************************************************************)
\* Leaving process_news_cycle, by return or by an exception: the finally block
\* releases the lock; the cycle's locals are gone.
FinishCycle ==
    /\ pc' = "idle"
    /\ lock' = NoLock
    /\ raw_items' = <<>>
    /\ new_items' = <<>>
    /\ hash_cache' = <<>>
    /\ cur_id' = 0
    /\ llm' = FreshClient
    /\ pending' = NoPending
    /\ http500_streak' = 0

\* The release placed after the try statement instead of in its finally block:
\* an exception leaves the function before the release.
AbortCycleWithoutFinally ==
    /\ pc' = "raised"
    /\ raw_items' = <<>>
    /\ new_items' = <<>>
    /\ hash_cache' = <<>>
    /\ cur_id' = 0
    /\ llm' = FreshClient
    /\ pending' = NoPending
    /\ http500_streak' = 0
    /\ UNCHANGED lock

\* An exception leaves process_news_cycle: there is no except clause, the
\* finally block releases the lock and the exception reaches the caller.
AbortCycle ==
    /\ pc' = "raised"
    /\ lock' = NoLock
    /\ raw_items' = <<>>
    /\ new_items' = <<>>
    /\ hash_cache' = <<>>
    /\ cur_id' = 0
    /\ llm' = FreshClient
    /\ pending' = NoPending
    /\ http500_streak' = 0

\* `continue` / end of the processing loop
NextItem(client, streak) ==
    IF new_items # <<>>
      THEN /\ pc' = "persist"
           /\ cur_id' = 0
           /\ pending' = NoPending
           /\ llm' = client
           /\ http500_streak' = streak
           /\ UNCHANGED <<lock, raw_items, new_items, hash_cache>>
      ELSE FinishCycle

\* Lock acquisition, fetch, and loading of the recent simhashes (main.py:45-107)
StartCycle(batch, maxRows) ==
    /\ pc \in {"idle", "raised"}
    /\ ~LockStillValid(lock, now)
    /\ Len(news) + Len(batch) <= maxRows
    /\ lock' = LockRow(now, 1)
    /\ raw_items' = batch
    /\ hash_cache' = RecentSimhashes(news, now)
    /\ new_items' = <<>>
    /\ pc' = "dedup"
    /\ cycle_ids' = {}
    /\ last_gate' = NoGate
    /\ UNCHANGED <<now, lkpc, lknow, lkbranch, lkres, lkraced, signals, limitVars, news,
                   cur_id, llm, pending, ticks, broadcasts, http500_streak, limit_reached_for, cbVars, noise_filter_enabled, broadcaster, pureVars, healthVars, edgeVars>>

\* One iteration of the first loop (main.py:109-177), and what follows the
\* loop when it was the last one (main.py:179-207).
DedupItem ==
    LET
        \* Age of published_at at the moment of the check, in minutes; -1 = the feed
        \* gave no published_at.
        PublishedAges == {-1, MaxAgeDays * DayMinutes, MaxAgeDays * DayMinutes + 1}
    IN
        /\ pc = "dedup"
        /\ raw_items # <<>>
        /\ \E age \in PublishedAges :
            LET item == Head(raw_items)
                freshness == CheckFreshness(age)
                skip == UrlExists(news, item.url) \/ ~freshness.passed
                duplicate_of == IsDuplicateBySimhash(item.simhash, hash_cache, SimhashThreshold)
                kept == IF ~skip /\ duplicate_of = 0 THEN Append(new_items, item) ELSE new_items
                cut == SubSeq(kept, 1, IF Len(kept) > MaxProcessingBatch
                                         THEN MaxProcessingBatch ELSE Len(kept))
            IN  /\ last_gate' = IF ~UrlExists(news, item.url) /\ ~freshness.passed
                                  THEN [code |-> freshness.decision_code, id |-> 0, url |-> item.url]
                                  ELSE NoGate
                /\ IF ~skip /\ duplicate_of # 0
                     THEN /\ news' = Append(news, DuplicateRow(item, duplicate_of, now))
                          /\ cycle_ids' = cycle_ids \cup {Len(news) + 1}
                     ELSE UNCHANGED <<news, cycle_ids>>
                /\ IF Tail(raw_items) # <<>>
                     THEN /\ raw_items' = Tail(raw_items)
                          /\ new_items' = kept
                          /\ UNCHANGED <<pc, lock, hash_cache, cur_id, llm, pending,
                                         http500_streak>>
                   ELSE IF kept = <<>>
                     THEN FinishCycle
                   ELSE /\ new_items' = cut
                        /\ raw_items' = <<>>
                        /\ pc' = "persist"
                        /\ llm' = FreshClient
                        /\ UNCHANGED <<lock, hash_cache, cur_id, pending, http500_streak>>
        /\ UNCHANGED <<now, lkpc, lknow, lkbranch, lkres, lkraced, signals, limitVars,
                       ticks, broadcasts, limit_reached_for, cbVars, noise_filter_enabled, broadcaster, pureVars, healthVars, edgeVars>>

\* NewsRepository.create with status raw, commit, add_hash (main.py:213-231).
\* The unique index on url_normalized makes the INSERT raise when the URL is
\* already in the table; nothing in the loop catches it.
PersistRaw ==
    /\ pc = "persist"
    /\ last_gate' = NoGate
    /\ LET item == Head(new_items)
           news_id == Len(news) + 1
       IN  IF UrlExists(news, item.url)
             THEN AbortCycle /\ UNCHANGED <<news, cycle_ids>>
             ELSE /\ news' = Append(news, RawRow(item, now))
                  /\ cur_id' = news_id
                  /\ hash_cache' = Append(hash_cache, [id |-> news_id, simhash |-> item.simhash])
                  /\ cycle_ids' = cycle_ids \cup {news_id}
                  /\ new_items' = Tail(new_items)
                  /\ pc' = "classify"
                  /\ UNCHANGED <<lock, raw_items, llm, pending, http500_streak>>
    /\ UNCHANGED <<now, lkpc, lknow, lkbranch, lkres, lkraced, signals, limitVars,
                   ticks, broadcasts, limit_reached_for, cbVars, noise_filter_enabled, broadcaster, pureVars, healthVars, edgeVars>>

\* Resolved, noise and filter1 gates, LLM availability, analyze, decide and the
\* status update (main.py:233-375).  The four update_status calls that pass
\* decision_code= (main.py:248, 270, 305, 319) raise TypeError: update_status
\* has no such parameter (repo.py:62-69).  With the noise filter enabled the
\* arguments of check_noise read an attribute NoiseFilterConfig does not have
\* (main.py:260, config_loader.py:93-101), which raises AttributeError.
Classify ==
    LET
        Regions == {0, 1}

        Verdicts ==
            LET
                RejectVerdicts == {"RESOLVED_EVENT", "NOISE_HARD_TOPIC", "FILTER1_REJECTED"}
            IN
                RejectVerdicts \cup {"PASSED"}

        \* The pairs of provider answers one analyze() can consume: the second one is
        \* only looked at after a 200 with an unparsable body.
        AnalyzeRuns ==
            {<<o1, o2>> \in HttpOutcomes \X HttpOutcomes :
                (o1.code = 200 /\ ~o1.body.valid) \/ o2 = o1}
    IN
        /\ pc = "classify"
        /\ \/ /\ \E v \in Verdicts :
                    /\ \/ v = "RESOLVED_EVENT"
                       \/ noise_filter_enabled
                       \/ v = "FILTER1_REJECTED"
                    /\ last_gate' = IF v = "RESOLVED_EVENT"
                                      THEN [code |-> v, id |-> cur_id, url |-> 0]
                                      ELSE NoGate
              /\ AbortCycle
              /\ UNCHANGED <<news, limit_reached_for>>
           \/ /\ ~noise_filter_enabled
              /\ ~IsAvailable(llm).ok
              /\ last_gate' = [code |-> IsAvailable(llm).reason, id |-> cur_id, url |-> 0]
              /\ AbortCycle
              /\ UNCHANGED <<news, limit_reached_for>>
           \/ /\ ~noise_filter_enabled
              /\ IsAvailable(llm).ok
              /\ \E run \in AnalyzeRuns, reg \in Regions :
                   LET a == Analyze(llm, run[1], run[2])
                       signals_today == CountSince(signals, TodayStartUtc(now, UtcOffsetMinutes))
                       decision == Decide(a.response, TRUE, signals_today)
                       status == GetStatusFromDecision(decision, ~a.response.valid)
                       at_limit == CountSince(signals, TodayStartUtc(now, AppTzOffsetMinutes))
                                       >= MaxSignalsPerDay
                   IN  /\ (~decision.should_send => reg = 0)
                       /\ last_gate' = IF a.error = "LLM_BILLING_LIMIT"
                                         THEN [code |-> a.error, id |-> cur_id, url |-> 0]
                                         ELSE NoGate
                       /\ news' = UpdateStatus(news, cur_id, status)
                       /\ limit_reached_for' =
                            IF PassesThresholds(a.response) /\ at_limit
                              THEN limit_reached_for \cup {cur_id} ELSE limit_reached_for
                       /\ IF decision.should_send /\ broadcaster
                            THEN /\ pc' = "signal"
                                 /\ llm' = a.client
                                 /\ http500_streak' = StreakAfter(http500_streak, llm, run[1], run[2])
                                 /\ pending' = [event_type |-> a.response.event_type, region |-> reg,
                                                object_type |-> a.response.object]
                                 /\ UNCHANGED <<lock, raw_items, new_items, hash_cache, cur_id>>
                            ELSE NextItem(a.client, StreakAfter(http500_streak, llm, run[1], run[2]))
        /\ UNCHANGED <<now, lkpc, lknow, lkbranch, lkres, lkraced, signals, limitVars,
                       ticks, broadcasts, cycle_ids, cbVars, noise_filter_enabled, broadcaster, pureVars, healthVars, edgeVars>>

\* Similarity check, day-bounded insert, broadcast (main.py:377-454)
SignalStep ==
    /\ pc = "signal"
    /\ last_gate' = NoGate
    /\ IF FindSimilarRecent(signals, pending.event_type, pending.region, pending.object_type, now)
         THEN /\ news' = UpdateStatus(news, cur_id, "suppressed_similar")
              /\ UNCHANGED <<signals, broadcasts>>
       ELSE IF CountSince(signals, TodayStartUtc(now, AppTzOffsetMinutes)) >= MaxSignalsPerDay
         THEN /\ news' = UpdateStatus(news, cur_id, "suppressed_limit")
              /\ UNCHANGED <<signals, broadcasts>>
       ELSE /\ signals' = Append(signals,
                                 [SignalRow(cur_id, now, pending.event_type,
                                            pending.region, pending.object_type)
                                    EXCEPT !.recipients_count = NumSubscribers])
            /\ broadcasts' = broadcasts \cup {cur_id}
            /\ UNCHANGED news
    /\ NextItem(llm, http500_streak)
    /\ UNCHANGED <<now, lkpc, lknow, lkbranch, lkres, lkraced, limitVars,
                   ticks, cycle_ids, limit_reached_for, cbVars, noise_filter_enabled, broadcaster, pureVars, healthVars, edgeVars>>

\* Admin "cleanup" confirmation: cleanup_old_news(days=30) and commit
\* (ui_callbacks.py:316-319)
AdminCleanup ==
    /\ CleanupOldNews(news, now) # news
    /\ news' = CleanupOldNews(news, now)
    /\ last_gate' = RetentionRun
    /\ UNCHANGED <<now, lockVars, signals, limitVars, pc, raw_items, new_items, hash_cache,
                   cur_id, llm, pending, ticks, broadcasts, cycle_ids, http500_streak,
                   limit_reached_for, cbVars, noise_filter_enabled, broadcaster, pureVars, healthVars, edgeVars>>

\* The scheduled retention_job (main.py:584-627), run while some row is older
\* than the retention period.  cleanup_old_news issues its DELETE, then
\* `timedelta(days=30)` raises NameError: main.py imports only `datetime` at
\* module level.  The exception leaves the `async with get_session()` block
\* before commit, so the session is closed and the DELETE is rolled back.
RetentionJob ==
    /\ \E i \in DOMAIN news :
         news[i].alive /\ news[i].collected_at < now - RetentionDays * DayMinutes
    /\ last_gate # RetentionRun
    /\ last_gate' = RetentionRun
    /\ UNCHANGED <<now, lockVars, signals, limitVars, news, pc, raw_items, new_items, hash_cache,
                   cur_id, llm, pending, ticks, broadcasts, cycle_ids, http500_streak,
                   limit_reached_for, cbVars, noise_filter_enabled, broadcaster, pureVars, healthVars, edgeVars>>

\* Time passing between cycles: five hours, or the retention period.
Tick ==
    /\ pc \in {"idle", "raised"}
    /\ ticks < MaxTicks
    /\ \E d \in {300, RetentionDays * DayMinutes} : now' = now + d
    /\ ticks' = ticks + 1
    /\ last_gate' = NoGate
    /\ UNCHANGED <<lockVars, signals, limitVars, news, pc, raw_items, new_items, hash_cache,
                   cur_id, llm, pending, broadcasts, cycle_ids, http500_streak, limit_reached_for, cbVars, noise_filter_enabled, broadcaster, pureVars, healthVars, edgeVars>>

Init ==
    /\ now = StartNow
    /\ LockVarsInit
    /\ signals = <<>>
    /\ LimitVarsInit
    /\ PipeVarsInit
    /\ CbVarsInit
    /\ noise_filter_enabled \in BOOLEAN
    /\ broadcaster = TRUE
    /\ PureVarsInit
    /\ HealthVarsInit
    /\ EdgeVarsInit

Next ==
    \/ \E b \in Batches : StartCycle(b, MaxNews)
    \/ DedupItem
    \/ PersistRaw
    \/ Classify
    \/ SignalStep
    \/ AdminCleanup
    \/ RetentionJob
    \/ Tick

Spec == Init /\ [][Next]_vars

\* One fetch of MaxLLMNews new articles, each with its own URL and no text to
\* hash; used to follow the LLM stage over many items of a cycle.
NewArticles == [k \in 1..MaxLLMNews |-> [url |-> 100 + k, simhash |-> 0]]

LLMNext ==
    \/ StartCycle(NewArticles, MaxLLMNews)
    \/ DedupItem
    \/ PersistRaw
    \/ Classify
    \/ SignalStep

SpecLLM == Init /\ [][LLMNext]_vars

(***************************************************************************)
(* Claims about the orchestrator                                           *)
(***************************************************************************)
\* C3 (as claimed): an item that passes filter1 and the LLM thresholds while
\* max_signals_per_day signals were already sent today (day of the configured
\* timezone) ends as suppressed_limit, with no Signal row and no broadcast.
C3_SuppressedAtLimit ==
    LET
        Finished(id) == id \in DOMAIN news /\ cur_id # id
    IN
        \A id \in limit_reached_for :
            Finished(id) =>
                /\ news[id].status = "suppressed_limit"
                /\ \A k \in DOMAIN signals : signals[k].news_id # id
                /\ id \notin broadcasts

\* C4 (as claimed): once a News row has left raw its status is never written
\* again.
C4_StatusWrittenOnce ==
    [][\A i \in DOMAIN news : news[i].status # "raw" => news'[i].status = news[i].status]_vars

\* C5: a News row has a canonical_news_id if and only if its status is
\* duplicate.
C5_CanonicalIffDuplicate ==
    \A i \in DOMAIN news :
        news[i].alive => ((news[i].canonical_news_id # 0) <=> (news[i].status = "duplicate"))

C5_Witness ==
    \E i, j \in DOMAIN news :
        /\ news[i].alive /\ news[j].alive
        /\ news[i].status = "duplicate" /\ news[i].canonical_news_id = j
        /\ news[j].status \in {"sent", "filtered", "llm_failed"}

\* C6 (as claimed): every duplicate row points to an existing row collected no
\* later than itself.
C6_CanonicalBackReference ==
    \A i \in DOMAIN news :
        (news[i].alive /\ news[i].status = "duplicate") =>
            LET c == news[i].canonical_news_id
            IN  /\ c \in DOMAIN news
                /\ news[c].alive
                /\ news[c].collected_at <= news[i].collected_at

\* C7 (as claimed): of two fetched items with the same normalized URL the
\* second is dropped at the URL stage, so the items that got past simhash
\* dedup in one cycle have pairwise different URLs.
C7_SameUrlDroppedAtUrlStage ==
    \A i, j \in DOMAIN new_items : i # j => new_items[i].url # new_items[j].url

\* C8 (as claimed): when two items of one cycle are within simhash_threshold of
\* each other and the first was taken as unique, the second is stored as
\* duplicate with canonical_news_id = the first one's id.
C8_NearDuplicateInCycle ==
    \A i, j \in cycle_ids :
        (/\ i < j
         /\ news[i].simhash # 0 /\ news[j].simhash # 0
         /\ HammingDistance(news[i].simhash, news[j].simhash) <= SimhashThreshold
         /\ news[i].canonical_news_id = 0)
            => (news[j].status = "duplicate" /\ news[j].canonical_news_id = i)

\* C10 (as claimed): after five consecutive LLM calls answered with HTTP 500 no
\* further LLM request goes out within the cooldown, so a sixth consecutive
\* 500 cannot be observed while the clock stands still.
C10_NoRequestAfterFiveErrors == http500_streak <= 5

(***************************************************************************)
(* Circuit breaker (llm_monitor.py CircuitBreaker)                         *)
(***************************************************************************)
CbWindowMinutes == 5
CbThreshold == 5
CbCooldownMinutes == 10

\* _cleanup: keep the errors younger than the window
CbCleanup(errors, t) == SelectSeq(errors, LAMBDA e : e > t - CbWindowMinutes)

\* is_open() giving up the cooldown one minute early.
CbIsOpenEarly(flag, last, t) ==
    IF ~flag THEN FALSE
    ELSE IF last # -1 /\ t - last >= CbCooldownMinutes THEN FALSE
    ELSE TRUE

\* is_open()
CbIsOpen(flag, last, t) ==
    IF ~flag THEN FALSE
    ELSE IF last # -1 /\ t - last > CbCooldownMinutes THEN FALSE
    ELSE TRUE

\* Five logged errors lie within one window: the k-th and the (k+4)-th are
\* less than CbWindowMinutes apart.
FiveInWindow(log) ==
    \E k \in DOMAIN log :
        /\ k + CbThreshold - 1 \in DOMAIN log
        /\ log[k + CbThreshold - 1] - log[k] < CbWindowMinutes

\* What record_error does to the class attributes
CbRecordErrorEffect ==
    /\ cb_last_error_at' = now
    /\ cb_errors' = CbCleanup(Append(cb_errors, now), now)
    /\ cb_is_open' = (cb_is_open \/ Len(cb_errors') >= CbThreshold)
    /\ cb_log' = Append(cb_log, now)

\* record_error
CbRecordError ==
    /\ Len(cb_log) < MaxCbLog
    /\ CbRecordErrorEffect
    /\ UNCHANGED <<now, llm_usage, lockVars, signals, limitVars, pipeVars, noise_filter_enabled, broadcaster, pureVars, healthVars, edgeVars>>

\* What record_success does to the class attributes
CbRecordSuccessEffect ==
    /\ IF cb_is_open
         THEN cb_is_open' = FALSE /\ cb_errors' = <<>>
         ELSE UNCHANGED <<cb_is_open, cb_errors>>
    /\ cb_log' = IF FiveInWindow(cb_log) THEN <<>> ELSE cb_log
    /\ UNCHANGED cb_last_error_at

\* record_success
CbRecordSuccess ==
    /\ CbRecordSuccessEffect
    /\ UNCHANGED <<now, llm_usage, lockVars, signals, limitVars, pipeVars, noise_filter_enabled, broadcaster, pureVars, healthVars, edgeVars>>

CbTick ==
    /\ \E d \in {1, CbWindowMinutes, CbCooldownMinutes} :
         /\ now + d <= MaxCbNow
         /\ now' = now + d
    /\ UNCHANGED <<lockVars, signals, limitVars, pipeVars, cbVars, noise_filter_enabled, broadcaster, pureVars, healthVars, edgeVars>>

CbInit ==
    /\ now = 0
    /\ LockVarsInit
    /\ signals = <<>>
    /\ LimitVarsInit
    /\ PipeVarsInit
    /\ CbVarsInit
    /\ noise_filter_enabled = TRUE
    /\ broadcaster = TRUE
    /\ PureVarsInit
    /\ HealthVarsInit
    /\ EdgeVarsInit

CbNext ==
    \/ CbRecordError
    \/ CbRecordSuccess
    \/ CbTick

SpecCB == CbInit /\ [][CbNext]_vars

\* C9: the circuit starts closed; is_open() is true exactly when five
\* record_error calls fell within one 5-minute window since the circuit last
\* closed and no more than 10 minutes have passed since the last recorded
\* error; a record_success while open closes it.
C9_CircuitBreakerStateMachine ==
    CbIsOpen(cb_is_open, cb_last_error_at, now)
        <=> (FiveInWindow(cb_log) /\ now - cb_last_error_at <= CbCooldownMinutes)

C9_Witness ==
    /\ FiveInWindow(cb_log)
    /\ CbIsOpen(cb_is_open, cb_last_error_at, now)
    /\ now - cb_last_error_at = CbCooldownMinutes

(***************************************************************************)
(* Budget guard (llm_monitor.py LLMMonitor, repo.py LLMUsageRepository)    *)
(***************************************************************************)
\* Money is counted in thousandths of a dollar.
BudgetLimit == 0
BudgetMargin == 1

RECURSIVE SumCost(_, _)
SumCost(rows, start) ==
    IF rows = <<>> THEN 0
    ELSE (IF Head(rows).timestamp >= start THEN Head(rows).total_cost ELSE 0)
             + SumCost(Tail(rows), start)

\* LLMUsageRepository.get_daily_cost(session, timezone_str) at instant t
GetDailyCost(rows, off, t) == SumCost(rows, TodayStartUtc(t, off))

\* LLMMonitor.check_budget raises BudgetExceededError
CheckBudgetRaises(rows, t) ==
    GetDailyCost(rows, UtcOffsetMinutes, t) > BudgetLimit + BudgetMargin

\* LLMMonitor.track_request: circuit breaker update, then the ledger row
TrackRequest ==
    LET
        \* The costs a tracked request can carry: free, $0.001 and $0.50.
        Costs == {0, 1, 500}
    IN
        /\ Len(llm_usage) < MaxLedger
        /\ \E cost \in Costs, http_status \in {200, 500} :
             /\ IF http_status # 200 THEN CbRecordErrorEffect ELSE CbRecordSuccessEffect
             /\ llm_usage' = Append(llm_usage, [timestamp |-> now, total_cost |-> cost,
                                                http_status |-> http_status])
        /\ UNCHANGED <<now, lockVars, signals, limitVars, pipeVars, noise_filter_enabled, broadcaster, pureVars, healthVars, edgeVars>>

\* Five hours pass.
BudgetTick ==
    /\ now < StartNow + MaxBudgetTicks * 300
    /\ now' = now + 300
    /\ UNCHANGED <<lockVars, signals, limitVars, pipeVars, cbVars, noise_filter_enabled, broadcaster, pureVars, healthVars, edgeVars>>

BudgetNext ==
    \/ TrackRequest
    \/ BudgetTick

SpecBudget == Init /\ [][BudgetNext]_vars

\* Two instants of one calendar day of the application timezone.
SameAppDay(t1, t2) == TodayStartUtc(t1, AppTzOffsetMinutes) = TodayStartUtc(t2, AppTzOffsetMinutes)

\* C11 (as claimed): within one day of the configured timezone the cost
\* get_daily_cost returns never decreases, and check_budget raises exactly
\* when the summed cost of today's ledger entries is above the limit.
C11_BudgetGuard ==
    [][/\ SameAppDay(now, now') =>
            GetDailyCost(llm_usage', UtcOffsetMinutes, now')
                >= GetDailyCost(llm_usage, UtcOffsetMinutes, now)
       /\ CheckBudgetRaises(llm_usage', now')
            <=> (GetDailyCost(llm_usage', AppTzOffsetMinutes, now') > BudgetLimit)]_vars

\* C12 (as claimed): process_news_cycle never propagates an exception to its
\* caller.
C12_OrchestratorNeverRaises == pc # "raised"

\* C13 (as claimed): at most one process_news_cycle invocation is between a
\* successful lock acquisition and its release.
C13_SingleOrchestrator ==
    Cardinality({p \in Instances : lkpc[p] = "held"}) <= 1

\* C14: an acquire that finds the row of a holder whose expires_at has passed
\* does not return false, and its write, when the row is still there, takes
\* the lock over and returns true.
C14_ExpiredLockIsTakenOver ==
    [][\A p \in Instances :
          /\ (/\ lkpc[p] = "idle" /\ lkpc'[p] # "idle"
              /\ lock.present /\ lock.expires_at < now)
                => (lkpc'[p] = "checked" /\ lkbranch'[p] = "update")
          /\ (/\ lkpc[p] = "checked" /\ lkpc'[p] # "checked"
              /\ lkbranch[p] = "update" /\ lock.present)
                => (/\ lkres'[p] = "true"
                    /\ lkpc'[p] = "held"
                    /\ lock' = LockRow(lknow[p], p))]_vars

C14_Witness ==
    \E p \in Instances :
        /\ lkpc[p] = "held" /\ lkres[p] = "true" /\ lkbranch[p] = "update"
        /\ lock = LockRow(lknow[p], p)
        /\ lknow[p] > LockDurationMinutes
        /\ ~lkraced
        /\ \E q \in Instances \ {p} : lkpc[q] = "idle"

\* C15 (as claimed): an item the resolved gate rejects with RESOLVED_EVENT gets
\* status filtered_resolved.
C15_ResolvedGetsFilteredResolved ==
    last_gate.code = "RESOLVED_EVENT" => news[last_gate.id].status = "filtered_resolved"

\* C16 (as claimed): an item rejected as STALE_NEWS is persisted with status
\* filtered_old.
C16_StaleGetsFilteredOld ==
    last_gate.code = "STALE_NEWS" =>
        \E i \in DOMAIN news :
            news[i].alive /\ news[i].url = last_gate.url /\ news[i].status = "filtered_old"

(***************************************************************************)
(* Feedback on sent signals (ui_callbacks.py, repo.py set_feedback)        *)
(***************************************************************************)
\* handle_feedback_callback: an admin presses the thumbs-up or thumbs-down
\* button under a signal; set_feedback writes the score and clears the comment.
HandleFeedback ==
    /\ \E signal_id \in DOMAIN signals, action \in {"good", "bad"} :
         LET score == IF action = "good" THEN 1 ELSE -1
         IN  signals' = [signals EXCEPT ![signal_id].feedback_score = score]
    /\ UNCHANGED <<now, lockVars, limitVars, pipeVars, cbVars, noise_filter_enabled, broadcaster, pureVars, healthVars, edgeVars>>

FeedbackNext ==
    \/ \E p \in Instances : TryCreateCount(p)
    \/ \E p \in Instances : TryCreateInsert(p)
    \/ HandleFeedback

SpecFeedback == LimitInit /\ [][FeedbackNext]_vars

\* C17 (as claimed): once a Signal row is inserted, no column of it other than
\* recipients_count ever changes.
C17_SignalImmutable ==
    [][\A k \in DOMAIN signals :
          /\ k \in DOMAIN signals'
          /\ [signals'[k] EXCEPT !.recipients_count = 0]
                = [signals[k] EXCEPT !.recipients_count = 0]]_vars

\* C18 (as claimed): after a retention run no News row older than 30 days with
\* a non-signal terminal status is left, and no News row that has a Signal is
\* ever deleted.
C18_RetentionDeletesOldRows ==
    LET
        \* Terminal statuses of rows that did not become a signal.
        NonSignalTerminal ==
            {"duplicate", "filtered", "filtered_old", "filtered_resolved", "filtered_noise",
             "llm_failed", "llm_skipped", "suppressed_limit", "suppressed_similar"}
    IN
        /\ last_gate = RetentionRun =>
             \A i \in DOMAIN news :
                ~(/\ news[i].alive
                  /\ news[i].collected_at < now - RetentionDays * DayMinutes
                  /\ news[i].status \in NonSignalTerminal)
        /\ \A k \in DOMAIN signals : news[signals[k].news_id].alive

\* C22 (as claimed): when a cycle has ended, every News row it persisted has a
\* terminal (non-raw) status.
C22_EveryItemTerminal ==
    pc \in {"idle", "raised"} =>
        \A i \in cycle_ids : news[i].alive => news[i].status # "raw"

\* C24 (as claimed): the client never makes more than max_requests_per_cycle
\* requests in a cycle, and an item met after the request cap or the 429 cap
\* was reached gets status llm_skipped.
C24_CycleThrottle ==
    /\ llm.requests_this_cycle <= MaxRequestsPerCycle
    /\ last_gate.code \in {"LLM_CYCLE_LIMIT", "LLM_RATE_LIMIT_EXCEEDED"} =>
          news[last_gate.id].status = "llm_skipped"

\* C25 (as claimed): the item whose call returned HTTP 402, and every later
\* item of the cycle that reaches the LLM stage, gets status llm_skipped.
C25_BillingHardStop ==
    last_gate.code = "LLM_BILLING_LIMIT" => news[last_gate.id].status = "llm_skipped"

(***************************************************************************)
(* analyze (llm.py 83-121) as a function of the client's throttle state    *)
(* and of what the provider answers to the first and the second request.   *)
(***************************************************************************)

AnalyzeInit ==
    LET
        AnalyzeCalls ==
            LET
                \* Throttle states a client can be in before a call: some requests made, up
                \* to the cap; no more 429s counted than requests made; disabled after a 402.
                ClientStates ==
                    {[requests_this_cycle |-> n, consecutive_429 |-> k, disabled_for_cycle |-> d,
                      last_error_code |-> IF d THEN "LLM_BILLING_LIMIT"
                                          ELSE IF k >= MaxConsecutive429 THEN "LLM_RATE_LIMIT_EXCEEDED"
                                          ELSE "none"] :
                        n \in {MaxConsecutive429, MaxRequestsPerCycle - 1, MaxRequestsPerCycle},
                        k \in 0..MaxConsecutive429, d \in BOOLEAN}
            IN
                            [made : {TRUE}, client : ClientStates, o1 : HttpOutcomes, o2 : HttpOutcomes]
    IN
        /\ now = 0
        /\ LockVarsInit
        /\ signals = <<>>
        /\ LimitVarsInit
        /\ PipeVarsInit
        /\ CbVarsInit
        /\ noise_filter_enabled = FALSE
        /\ broadcaster = TRUE
        /\ f1_call = NoCall
        /\ f1_ret = NoReturn
        /\ dec_call = NoCall
        /\ dec_ret = NoReturn
        /\ url_call = NoCall
        /\ url_ret = NoReturn
        /\ an_call \in AnalyzeCalls
        /\ an_ret = NoReturn
        /\ HealthVarsInit
        /\ EdgeVarsInit

AnalyzeReturn ==
    /\ an_ret = NoReturn
    /\ an_ret' = [returned |-> TRUE,
                  result |-> Analyze(an_call.client, an_call.o1, an_call.o2),
                  requests |-> AnalyzeRequests(an_call.client, an_call.o1, an_call.o2)]
    /\ UNCHANGED <<now, lockVars, signals, limitVars, pipeVars, cbVars, noise_filter_enabled, broadcaster,
                   f1_call, f1_ret, dec_call, dec_ret, url_call, url_ret, an_call, healthVars, edgeVars>>

SpecAnalyze == AnalyzeInit /\ [][AnalyzeReturn]_vars

\* C26 (as claimed): when the request for an item fails with HTTP 429, a
\* timeout or a 5xx, the client sends a request for the same item to another
\* model.
C26_ModelFallback ==
    (/\ an_ret # NoReturn
     /\ Len(an_ret.requests) >= 1
     /\ an_call.o1.code \in {429, 0, 500})
        => /\ Len(an_ret.requests) >= 2
           /\ an_ret.requests[2].model # an_ret.requests[1].model

\* C27: analyze sends a second request only when the first was answered with
\* HTTP 200 and content that does not parse, the second request names the
\* same model and carries the strict-JSON instruction, and no call of analyze
\* sends more than two requests.
C27_InvalidJsonRetry ==
    an_ret # NoReturn =>
        /\ Len(an_ret.requests) <= 2
        /\ Len(an_ret.requests) = 2 =>
              /\ an_call.o1.code = 200 /\ ~an_call.o1.body.valid
              /\ an_ret.requests[2].model = an_ret.requests[1].model
              /\ ~an_ret.requests[1].strict_json
              /\ an_ret.requests[2].strict_json

\* A first answer that did not parse was followed by a second request, whose
\* answer did.
C27_Witness ==
    /\ an_ret # NoReturn
    /\ Len(an_ret.requests) = 2
    /\ an_call.o1.code = 200
    /\ an_ret.result.response.valid

(***************************************************************************)
(* A second invocation of process_news_cycle while a cycle is running      *)
(* (main.py 45-55): the scheduler tick and the first-start trigger both    *)
(* call it.                                                                *)
(***************************************************************************)

\* `if not acquired: return`, inside the try block: the finally block would
\* release the lock of the running cycle.
LockHeldReturnInsideTry ==
    /\ lock' = NoLock
    /\ UNCHANGED <<news, signals, raw_items, new_items>>

\* `if not acquired: return` (main.py:53-55), before the try block: no
\* fetch, no row written, no release.
LockHeldReturn == UNCHANGED <<lock, news, signals, raw_items, new_items>>

\* The invocation's acquire finds the row of the running cycle still valid
\* and returns False (repo.py:506-509).
SecondInvocation ==
    /\ pc \notin {"idle", "raised"}
    /\ LockStillValid(lock, now)
    /\ LockHeldReturn
    /\ last_gate' = LockHeld
    /\ UNCHANGED <<now, lkpc, lknow, lkbranch, lkres, lkraced, limitVars, pc, hash_cache,
                   cur_id, llm, pending, ticks, broadcasts, cycle_ids, http500_streak,
                   limit_reached_for, cbVars, noise_filter_enabled, broadcaster, pureVars, healthVars, edgeVars>>

SecondInvocationNext ==
    \/ \E b \in Batches : StartCycle(b, MaxNews)
    \/ DedupItem
    \/ PersistRaw
    \/ Classify
    \/ SignalStep
    \/ SecondInvocation

SpecSecondInvocation == Init /\ [][SecondInvocationNext]_vars

\* C23: an invocation that fails to acquire the lock fetches nothing, creates
\* or updates no News or Signal row and leaves the holder's lock row in place.
C23_LockHeldNoEffect ==
    [][last_gate' = LockHeld =>
          /\ lock' = lock /\ lock'.present
          /\ news' = news
          /\ signals' = signals
          /\ raw_items' = raw_items
          /\ new_items' = new_items]_vars

\* An invocation found the lock held while the running cycle had a row
\* persisted and an item still to process.
C23_Witness ==
    /\ last_gate = LockHeld
    /\ lock.present
    /\ pc = "classify"
    /\ Len(news) > 0

(***************************************************************************)
(* Keyword scorer: KeywordFilter.score and should_send_to_llm              *)
(* (filter1.py 37-176).  A text is the set of the terms it contains; the   *)
(* Russian keywords are written in Latin letters.                          *)
(***************************************************************************)

\* kw.lower() in text.lower()
Occurs(kw, text) ==
    LET
        \* str.lower() on the terms.
        Lower(t) == IF t = "REMONT" THEN "remont" ELSE t

        \* `kw in text_lower` for one term of the text: the keywords that are
        \* substrings of the lower-cased term.
        SubstringsOf(t) ==
            LET l == Lower(t)
            IN  {l} \cup (IF l = "remont dorogi" THEN {"remont"}
                          ELSE IF l = "avariya na vodokanale" THEN {"avariya", "vodokanal"}
                          ELSE {})
    IN
        \E t \in text : Lower(kw) \in SubstringsOf(t)

NegativeWeight == -5

Filter1Threshold == 4

\* config.filter1_gate
EventCategoriesRequired == {"accident", "repair"}

ObjectCategoriesRequired == {"infrastructure", "industrial"}

StrongEventOverridePhrases == {"zatoplenie", "avariya na vodokanale"}

RECURSIVE SumWeights(_)
SumWeights(cats) ==
    LET
        Weights == [accident |-> 3, repair |-> 2, infrastructure |-> 4, industrial |-> 2]
    IN
        IF cats = {} THEN 0
        ELSE LET c == CHOOSE x \in cats : TRUE IN Weights[c] + SumWeights(cats \ {c})

\* KeywordFilter.score: the negative weight once per negative keyword that
\* occurs, each category's weight once if any of its keywords occurs.
Score(text) ==
    LET
        \* config.keywords.positive, config.keywords.negative and config.weights
        PositiveKeywords ==
            [accident |-> {"avariya"}, repair |-> {"remont"},
             infrastructure |-> {"vodokanal"}, industrial |-> {"ceh"}]

        NegativeKeywords == {"remont dorogi"}
    IN
        LET negative_matches == {k \in NegativeKeywords : Occurs(k, text)}
            categories_matched ==
                {c \in DOMAIN PositiveKeywords : \E k \in PositiveKeywords[c] : Occurs(k, text)}
            score == Cardinality(negative_matches) * NegativeWeight + SumWeights(categories_matched)
        IN  [score |-> score, passed |-> text # {} /\ score >= Filter1Threshold,
             categories_matched |-> categories_matched]

\* should_send_to_llm that tries the strong-event override whatever the score.
ShouldSendToLlmOverrideFirst(text, require_combo, strong_event_override_enabled) ==
    LET result == Score(text)
        has_event == result.categories_matched \cap EventCategoriesRequired # {}
        has_object == result.categories_matched \cap ObjectCategoriesRequired # {}
        strong == \E ph \in StrongEventOverridePhrases : Occurs(ph, text)
    IN  IF require_combo /\ ~(has_event /\ has_object) /\ strong_event_override_enabled /\ strong
          THEN [returned |-> TRUE, should_send |-> TRUE, result |-> result,
                decision_code |-> "STRONG_OVERRIDE"]
        ELSE IF ~result.passed
          THEN [returned |-> TRUE, should_send |-> FALSE, result |-> result,
                decision_code |-> "FILTER1_BELOW_THRESHOLD"]
        ELSE IF require_combo /\ ~(has_event /\ has_object)
          THEN [returned |-> TRUE, should_send |-> FALSE,
                result |-> [result EXCEPT !.passed = FALSE],
                decision_code |-> "COMBO_RULE_FAILED"]
        ELSE [returned |-> TRUE, should_send |-> TRUE, result |-> result,
              decision_code |-> "PASSED"]

\* KeywordFilter.should_send_to_llm with the configured category and phrase
\* lists (both category lists and the phrase list are non-empty).
ShouldSendToLlm(text, require_combo, strong_event_override_enabled) ==
    LET result == Score(text)
        has_event == result.categories_matched \cap EventCategoriesRequired # {}
        has_object == result.categories_matched \cap ObjectCategoriesRequired # {}
        strong == \E ph \in StrongEventOverridePhrases : Occurs(ph, text)
    IN  IF ~result.passed
          THEN [returned |-> TRUE, should_send |-> FALSE, result |-> result,
                decision_code |-> "FILTER1_BELOW_THRESHOLD"]
        ELSE IF require_combo /\ ~(has_event /\ has_object)
          THEN IF strong_event_override_enabled /\ strong
                 THEN [returned |-> TRUE, should_send |-> TRUE, result |-> result,
                       decision_code |-> "STRONG_OVERRIDE"]
               ELSE [returned |-> TRUE, should_send |-> FALSE,
                     result |-> [result EXCEPT !.passed = FALSE],
                     decision_code |-> "COMBO_RULE_FAILED"]
        ELSE [returned |-> TRUE, should_send |-> TRUE, result |-> result,
              decision_code |-> "PASSED"]

Filter1Init ==
    LET
        \* The calls of should_send_to_llm that are tried.
        Filter1Calls ==
            LET
                \* Terms a title+text may contain: one keyword of each positive category (one
                \* of them in capitals), a negative keyword that contains a repair keyword,
                \* a strong phrase that contains no keyword and one that contains two.
                Terms ==
                    {"avariya", "REMONT", "vodokanal", "ceh", "remont dorogi", "zatoplenie",
                     "avariya na vodokanale"}
            IN
                [made : {TRUE}, text : SUBSET Terms, require_combo : BOOLEAN,
                 strong_event_override_enabled : BOOLEAN]
    IN
        /\ now = 0
        /\ LockVarsInit
        /\ signals = <<>>
        /\ LimitVarsInit
        /\ PipeVarsInit
        /\ CbVarsInit
        /\ noise_filter_enabled = FALSE
        /\ broadcaster = TRUE
        /\ f1_call \in Filter1Calls
        /\ f1_ret = NoReturn
        /\ dec_call = NoCall
        /\ dec_ret = NoReturn
        /\ url_call = NoCall
        /\ url_ret = NoReturn
        /\ an_call = NoCall
        /\ an_ret = NoReturn
        /\ HealthVarsInit
        /\ EdgeVarsInit

Filter1Return ==
    /\ f1_ret = NoReturn
    /\ f1_ret' = ShouldSendToLlm(f1_call.text, f1_call.require_combo,
                                 f1_call.strong_event_override_enabled)
    /\ UNCHANGED <<now, lockVars, signals, limitVars, pipeVars, cbVars, noise_filter_enabled, broadcaster,
                   f1_call, dec_call, dec_ret, url_call, url_ret, an_call, an_ret, healthVars, edgeVars>>

SpecFilter1 == Filter1Init /\ [][Filter1Return]_vars

\* The matched categories of the call's text fail the combo rule.
ComboFails ==
    LET cats == Score(f1_call.text).categories_matched
    IN  ~(cats \cap EventCategoriesRequired # {} /\ cats \cap ObjectCategoriesRequired # {})

StrongPhraseOccurs == \E ph \in StrongEventOverridePhrases : Occurs(ph, f1_call.text)

DecideInit ==
    LET
        \* The calls of decide that are tried.
        DecideCalls ==
            LET
                \* LLM responses around both thresholds, with each action, and None.
                DecideResponses ==
                    {[valid |-> TRUE, event_type |-> "accident", relevance |-> rel, urgency |-> urg,
                      object |-> "water", action |-> act] :
                        rel \in {RelevanceThreshold - 1, RelevanceThreshold, RelevanceThreshold + 1},
                        urg \in {UrgencyThreshold - 1, UrgencyThreshold, UrgencyThreshold + 1},
                        act \in {"call", "watch", "ignore"}} \cup {NoResponse}
            IN
                [made : {TRUE}, llm_response : DecideResponses, filter1_passed : BOOLEAN,
                 signals_today : 0..(MaxSignalsPerDay + 1)]
    IN
        /\ now = 0
        /\ LockVarsInit
        /\ signals = <<>>
        /\ LimitVarsInit
        /\ PipeVarsInit
        /\ CbVarsInit
        /\ noise_filter_enabled = FALSE
        /\ broadcaster = TRUE
        /\ f1_call = NoCall
        /\ f1_ret = NoReturn
        /\ dec_call \in DecideCalls
        /\ dec_ret = NoReturn
        /\ url_call = NoCall
        /\ url_ret = NoReturn
        /\ an_call = NoCall
        /\ an_ret = NoReturn
        /\ HealthVarsInit
        /\ EdgeVarsInit

DecideReturn ==
    /\ dec_ret = NoReturn
    /\ dec_ret' = [returned |-> TRUE,
                   decision |-> Decide(dec_call.llm_response, dec_call.filter1_passed,
                                       dec_call.signals_today)]
    /\ UNCHANGED <<now, lockVars, signals, limitVars, pipeVars, cbVars, noise_filter_enabled, broadcaster,
                   f1_call, f1_ret, dec_call, url_call, url_ret, an_call, an_ret, healthVars, edgeVars>>

SpecDecide == DecideInit /\ [][DecideReturn]_vars

\* The six checks in the claimed order, each with the reason it gives and
\* whether the call fails it.
DecideChecks ==
    <<[reason |-> "filter1_rejected", fails |-> ~dec_call.filter1_passed],
      [reason |-> "llm_failed", fails |-> ~dec_call.llm_response.valid],
      [reason |-> "low_relevance", fails |-> dec_call.llm_response.relevance < RelevanceThreshold],
      [reason |-> "low_urgency", fails |-> dec_call.llm_response.urgency < UrgencyThreshold],
      [reason |-> "llm_action_ignore", fails |-> dec_call.llm_response.action = "ignore"],
      [reason |-> "daily_limit_reached", fails |-> dec_call.signals_today >= MaxSignalsPerDay]>>

FailedChecks == {i \in DOMAIN DecideChecks : DecideChecks[i].fails}

\* C20: the reason decide gives is that of the first check, in the order
\* filter1, LLM result null, relevance, urgency, action, daily limit, that
\* the call fails; decide approves exactly when the call fails none; and the
\* decision is flagged suppressed exactly when the daily limit rejected it.
C20_DecisionOrder ==
    LET
        FirstFailedCheck == CHOOSE i \in FailedChecks : \A j \in FailedChecks : i <= j
    IN
        dec_ret # NoReturn =>
            /\ dec_ret.decision.should_send <=> FailedChecks = {}
            /\ FailedChecks # {} => dec_ret.decision.reason = DecideChecks[FirstFailedCheck].reason
            /\ dec_ret.decision.suppressed <=>
                  (FailedChecks # {} /\ DecideChecks[FirstFailedCheck].reason = "daily_limit_reached")

\* A call that fails both the action check and the daily limit was rejected
\* for the action, and not flagged suppressed.
C20_Witness ==
    /\ dec_ret # NoReturn
    /\ FailedChecks = {5, 6}
    /\ dec_ret.decision = SignalDecision(FALSE, "llm_action_ignore", FALSE)

(***************************************************************************)
(* normalize_url (urlnorm.py 17-62).  A URL is a record of the parts that  *)
(* urlparse splits it into: the path is its sequence of characters, the    *)
(* query its sequence of <<name, value>> pairs in the order written.       *)
(***************************************************************************)
MaxPathLen == 3
MaxQueryLen == 2

Urls ==
    LET
        \* Hosts: lower case, mixed case, and a netloc with an unclosed bracket, for
        \* which urlparse raises ValueError("Invalid IPv6 URL").
        Hosts == {"example.com", "Example.COM", "[::1"}

        \* Parameter names (one of them a tracking parameter, written in two cases)
        \* and values (one of them blank).  None needs percent-encoding, so
        \* parse_qs and urlencode leave the characters as they are.
        ParamNames == {"a", "b", "utm_source", "UTM_Source"}

        ParamValues == {"1", ""}

        Fragments == {"", "top"}

        \* The sequences over S of length at most n.
        SeqsUpTo(S, n) == UNION {[1..k -> S] : k \in 0..n}

        Paths == {p \in SeqsUpTo({"/", "a"}, MaxPathLen) : p = <<>> \/ p[1] = "/"}
    IN
        [scheme : {"https"}, netloc : Hosts, path : Paths, params : {""},
         query : SeqsUpTo(ParamNames \X ParamValues, MaxQueryLen), fragment : Fragments]

\* str.lower() on hosts and parameter names.
LowerStr(x) ==
    IF x = "Example.COM" THEN "example.com"
    ELSE IF x = "UTM_Source" THEN "utm_source"
    ELSE x

\* DEFAULT_PARAMS_TO_REMOVE, of which the model uses one name.
ParamsToRemove == {"utm_source"}

\* path.rstrip("/")
RECURSIVE RStripSlash(_)
RStripSlash(p) ==
    IF p # <<>> /\ p[Len(p)] = "/" THEN RStripSlash(SubSeq(p, 1, Len(p) - 1)) ELSE p

\* The keys of the dict parse_qs builds, in insertion order: each name at its
\* first occurrence.
RECURSIVE FirstKeys(_)
FirstKeys(q) ==
    IF q = <<>> THEN <<>>
    ELSE LET k == Head(q)[1]
         IN  <<k>> \o SelectSeq(FirstKeys(Tail(q)), LAMBDA x : x # k)

\* urlencode(d, doseq=True): for each key in dict order, one pair per value.
RECURSIVE UrlEncode(_, _)
UrlEncode(keys, q) ==
    IF keys = <<>> THEN <<>>
    ELSE SelectSeq(q, LAMBDA pr : pr[1] = Head(keys)) \o UrlEncode(Tail(keys), q)

\* parse_qs(query, keep_blank_values=False) followed by the tracking filter
\* and urlencode.
RebuildQuery(q) ==
    LET non_blank == SelectSeq(q, LAMBDA pr : pr[2] # "")
        kept == SelectSeq(non_blank, LAMBDA pr : LowerStr(pr[1]) \notin ParamsToRemove)
    IN  UrlEncode(FirstKeys(kept), kept)

\* urlparse raises for this URL, and normalize_url returns it unchanged.
UrlParseRaises(u) == u.netloc = "[::1"

\* normalize_url
NormalizeUrl(u) ==
    IF UrlParseRaises(u) THEN u
    ELSE [scheme |-> u.scheme,
          netloc |-> LowerStr(u.netloc),
          path |-> IF u.path # <<"/">> THEN RStripSlash(u.path) ELSE u.path,
          params |-> u.params,
          query |-> RebuildQuery(u.query),
          fragment |-> ""]

UrlInit ==
    /\ now = 0
    /\ LockVarsInit
    /\ signals = <<>>
    /\ LimitVarsInit
    /\ PipeVarsInit
    /\ CbVarsInit
    /\ noise_filter_enabled = FALSE
    /\ broadcaster = TRUE
    /\ f1_call = NoCall
    /\ f1_ret = NoReturn
    /\ dec_call = NoCall
    /\ dec_ret = NoReturn
    /\ url_call \in Urls
    /\ url_ret = NoReturn
    /\ an_call = NoCall
    /\ an_ret = NoReturn
    /\ HealthVarsInit
    /\ EdgeVarsInit

NormalizeUrlReturn ==
    /\ url_ret = NoReturn
    /\ url_ret' = NormalizeUrl(url_call)
    /\ UNCHANGED <<now, lockVars, signals, limitVars, pipeVars, cbVars, noise_filter_enabled, broadcaster,
                   f1_call, f1_ret, dec_call, dec_ret, url_call, an_call, an_ret, healthVars, edgeVars>>

SpecUrl == UrlInit /\ [][NormalizeUrlReturn]_vars

\* C21 (as claimed): normalizing the output again changes nothing; the output
\* has no tracking parameter, a lower-case host and an empty fragment; and a
\* URL with the same query parameters in another order gives the same output.
C21_NormalizeUrlCanonical ==
    LET
        \* Two URLs that differ only in the order of their query parameters.
        SameUpToQueryOrder(u, v) ==
            /\ [u EXCEPT !.query = <<>>] = [v EXCEPT !.query = <<>>]
            /\ Len(u.query) = Len(v.query)
            /\ \E f \in [1..Len(u.query) -> 1..Len(u.query)] :
                  /\ \A i, j \in 1..Len(u.query) : f[i] = f[j] => i = j
                  /\ \A i \in 1..Len(u.query) : v.query[i] = u.query[f[i]]
    IN
        url_ret # NoReturn =>
            /\ NormalizeUrl(url_ret) = url_ret
            /\ \A i \in 1..Len(url_ret.query) : LowerStr(url_ret.query[i][1]) \notin ParamsToRemove
            /\ url_ret.netloc = LowerStr(url_ret.netloc)
            /\ url_ret.fragment = ""
            /\ \A v \in Urls : SameUpToQueryOrder(url_call, v) => NormalizeUrl(v) = url_ret

(***************************************************************************)
(* Source health: SourceHealthRepository (repo.py 534-645), the fetch of   *)
(* a cycle (main.py 60-80, rss.py 172-206) and auto_heal_job (main.py      *)
(* 555-573).  The counters total_fetches and total_failures and the        *)
(* last_* columns are written but never read, and are left out.            *)
(***************************************************************************)
MaxFailureCount == 11
MaxHealthNow == 90

AutoDisableThreshold == 10
AutoHealIntervalMinutes == 30
AutoHealCooldownMinutes == 60

\* `>` in place of `>=` in the auto-disable check.
ShouldDisableAbove(consecutive_failures) == consecutive_failures > AutoDisableThreshold

\* `if health.consecutive_failures >= AUTO_DISABLE_THRESHOLD` (repo.py:587)
ShouldDisable(consecutive_failures) == consecutive_failures >= AutoDisableThreshold

\* record_failure: a first row starts at one failure; an existing row is
\* incremented and disabled at the threshold.
RecordFailureRow(row, t) ==
    IF ~row.present
      THEN [present |-> TRUE, consecutive_failures |-> 1, is_disabled |-> FALSE,
            disabled_at |-> -1]
    ELSE LET n == row.consecutive_failures + 1
         IN  IF ShouldDisable(n)
               THEN [row EXCEPT !.consecutive_failures = n, !.is_disabled = TRUE,
                                !.disabled_at = t]
             ELSE [row EXCEPT !.consecutive_failures = n]

\* record_success: resets consecutive_failures and nothing else of the model.
RecordSuccessRow(row) ==
    IF ~row.present
      THEN [present |-> TRUE, consecutive_failures |-> 0, is_disabled |-> FALSE,
            disabled_at |-> -1]
    ELSE [row EXCEPT !.consecutive_failures = 0]

\* enable_source
EnableSourceRow(row) ==
    IF row.present
      THEN [row EXCEPT !.is_disabled = FALSE, !.consecutive_failures = 0, !.disabled_at = -1]
    ELSE row

RecordFailure(s) ==
    /\ health[s].consecutive_failures < MaxFailureCount
    /\ health' = [health EXCEPT ![s] = RecordFailureRow(@, now)]
    /\ fail_run' = [fail_run EXCEPT ![s] = @ + 1]
    /\ health_last' = NoOp
    /\ UNCHANGED <<now, lockVars, signals, limitVars, pipeVars, cbVars, noise_filter_enabled, broadcaster,
                   pureVars, edgeVars>>

RecordSuccess(s) ==
    /\ health' = [health EXCEPT ![s] = RecordSuccessRow(@)]
    /\ fail_run' = [fail_run EXCEPT ![s] = 0]
    /\ health_last' = NoOp
    /\ UNCHANGED <<now, lockVars, signals, limitVars, pipeVars, cbVars, noise_filter_enabled, broadcaster,
                   pureVars, edgeVars>>

\* The sources a cycle fetches: every configured source.  Neither
\* process_news_cycle nor fetch_all reads the source_health table.
SourcesToFetch(h) == Sources

\* The fetch of one processing cycle.
CycleFetch ==
    /\ health_last' = [op |-> "fetch", sources |-> SourcesToFetch(health)]
    /\ UNCHANGED <<now, health, fail_run, lockVars, signals, limitVars, pipeVars, cbVars,
                   noise_filter_enabled, broadcaster, pureVars, edgeVars>>

\* get_health_summary: one dict per row, with the keys source_id,
\* consecutive_failures, is_disabled, last_ok_at and last_status_code (the
\* last two are not modelled).  There is no disabled_at key.
GetHealthSummary(h) ==
    [s \in {x \in Sources : h[x].present} |->
        [source_id |-> s, consecutive_failures |-> h[s].consecutive_failures,
         is_disabled |-> h[s].is_disabled]]

\* auto_heal_job: the first disabled source of the summary whose disabled_at
\* is set and older than the cooldown is enabled; then the loop breaks.
AutoHealJob ==
    LET
        \* dict.get(key): None (-1) for a missing key.
        DictGet(d, key) == IF key \in DOMAIN d THEN d[key] ELSE -1
    IN
        LET summary == GetHealthSummary(health)
            healable == {s \in DOMAIN summary :
                            /\ summary[s].is_disabled
                            /\ DictGet(summary[s], "disabled_at") # -1
                            /\ now - DictGet(summary[s], "disabled_at") > AutoHealCooldownMinutes}
        IN  /\ IF healable # {}
                 THEN \E s \in healable :
                         /\ \A x \in healable :
                               summary[x].consecutive_failures <= summary[s].consecutive_failures
                         /\ health' = [health EXCEPT ![s] = EnableSourceRow(@)]
                         /\ fail_run' = [fail_run EXCEPT ![s] = 0]
               ELSE UNCHANGED <<health, fail_run>>
            /\ health_last' = [op |-> "auto_heal", sources |-> {}]
            /\ UNCHANGED <<now, lockVars, signals, limitVars, pipeVars, cbVars,
                           noise_filter_enabled, broadcaster, pureVars, edgeVars>>

\* Time passes: one interval of the auto-heal job.
HealthTick ==
    /\ now < MaxHealthNow
    /\ now' = now + AutoHealIntervalMinutes
    /\ health_last' = NoOp
    /\ UNCHANGED <<health, fail_run, lockVars, signals, limitVars, pipeVars, cbVars,
                   noise_filter_enabled, broadcaster, pureVars, edgeVars>>

HealthNext ==
    \/ \E s \in Sources : RecordFailure(s)
    \/ \E s \in Sources : RecordSuccess(s)
    \/ CycleFetch
    \/ AutoHealJob
    \/ HealthTick

HealthInit ==
    /\ now = 0
    /\ LockVarsInit
    /\ signals = <<>>
    /\ LimitVarsInit
    /\ PipeVarsInit
    /\ CbVarsInit
    /\ noise_filter_enabled = TRUE
    /\ broadcaster = TRUE
    /\ PureVarsInit
    /\ HealthVarsInit
    /\ EdgeVarsInit

SpecHealth == HealthInit /\ [][HealthNext]_vars

\* C28: consecutive_failures is the number of failures since the last
\* success; a row at or above 10 consecutive failures is disabled; and a call
\* disables a source only when that call is the tenth failure, or a later
\* one, with no success in between.
C28_AutoDisable ==
    [][\A s \in Sources :
          /\ health'[s].present => health'[s].consecutive_failures = fail_run'[s]
          /\ health'[s].consecutive_failures >= AutoDisableThreshold => health'[s].is_disabled
          /\ (health'[s].is_disabled /\ ~health[s].is_disabled) =>
                 (fail_run'[s] >= AutoDisableThreshold /\ fail_run'[s] = fail_run[s] + 1)]_vars

\* A source was disabled by its tenth failure in a row, while another one
\* had its failures reset by a success.
C28_Witness ==
    \E s, t \in Sources :
        /\ health[s].is_disabled /\ fail_run[s] = AutoDisableThreshold
        /\ health[s].consecutive_failures = AutoDisableThreshold
        /\ t # s /\ health[t].present /\ health[t].consecutive_failures = 0
        /\ ~health[t].is_disabled

\* C29 (as claimed): a cycle fetches no source whose row has is_disabled set.
C29_DisabledSourcesSkipped ==
    health_last.op = "fetch" =>
        \A s \in health_last.sources : ~health[s].is_disabled

\* C30 (as claimed): an auto-heal run that finds sources disabled for more
\* than 60 minutes re-enables one of them (is_disabled false,
\* consecutive_failures 0), and no run re-enables more than one.
C30_AutoHeal ==
    [][health_last' = [op |-> "auto_heal", sources |-> {}] /\ health_last # health_last' =>
          LET due == {s \in Sources : /\ health[s].is_disabled
                                      /\ now - health[s].disabled_at > AutoHealCooldownMinutes}
              healed == {s \in Sources : health[s].is_disabled /\ ~health'[s].is_disabled}
          IN  /\ due # {} => \E s \in due : s \in healed /\ health'[s].consecutive_failures = 0
              /\ Cardinality(healed) <= 1]_vars

(***************************************************************************)
(* The fetch stage of a cycle: RSSFetcher (rss.py 42-132, 172-206),        *)
(* WebsiteFetcher.fetch_news_list (website.py 70-143) and the calls of     *)
(* process_news_cycle (main.py 60-84).  An item is (source_id, entry       *)
(* number).  The cap of 20 items per web page is above the bound.          *)
(***************************************************************************)
MaxFeedEntries == 2

\* config.sources, in order.
SourceConfigs ==
    << [id |-> "rss_a", type |-> "rss"],
       [id |-> "gn_b", type |-> "google_news_rss"],
       [id |-> "web_c", type |-> "web"] >>

ItemsOf(source, n) == [k \in 1..n |-> [source_id |-> source.id, entry |-> k]]

\* _fetch_rss: every failure is logged and gives the empty list.
FetchRss(source, o) ==
    IF o.kind = "ok" THEN [raised |-> FALSE, items |-> ItemsOf(source, o.entries)]
    ELSE [raised |-> FALSE, items |-> <<>>]

\* fetch: google_news_rss builds a temporary rss source with the same id.
Fetch(source, o) ==
    IF source.type = "web" THEN [raised |-> FALSE, items |-> <<>>]
    ELSE FetchRss(source, o)

\* fetch_all: gather with return_exceptions, then the lists are concatenated
\* and the exceptions skipped.
RECURSIVE FlattenResults(_)
FlattenResults(results) ==
    IF results = <<>> THEN <<>>
    ELSE (IF Head(results).raised THEN <<>> ELSE Head(results).items)
             \o FlattenResults(Tail(results))

FetchAll(sources, outcomes) ==
    FlattenResults([i \in 1..Len(sources) |-> Fetch(sources[i], outcomes[sources[i].id])])

\* fetch_news_list without its try/except.
FetchNewsListUncaught(source, o, has_trafilatura) ==
    IF source.type # "web" THEN [raised |-> FALSE, items |-> <<>>]
    ELSE IF o.kind \in {"timeout", "error"} THEN [raised |-> TRUE, items |-> <<>>]
    ELSE IF o.kind = "ok" /\ has_trafilatura
      THEN [raised |-> FALSE, items |-> ItemsOf(source, o.entries)]
    ELSE [raised |-> FALSE, items |-> <<>>]

\* fetch_news_list: a non-200 status and every exception give the empty
\* list; links are extracted only when trafilatura is installed.
FetchNewsList(source, o, has_trafilatura) ==
    IF source.type # "web" THEN [raised |-> FALSE, items |-> <<>>]
    ELSE IF o.kind = "ok" /\ has_trafilatura
      THEN [raised |-> FALSE, items |-> ItemsOf(source, o.entries)]
    ELSE [raised |-> FALSE, items |-> <<>>]

IsWebType(source) == source.type = "web"

\* The web loop of process_news_cycle: an exception of a fetch leaves the loop.
RECURSIVE ExtendWithWeb(_, _, _, _)
ExtendWithWeb(raw, web_sources, outcomes, has_trafilatura) ==
    IF web_sources = <<>> THEN [raised |-> FALSE, items |-> raw]
    ELSE LET r == FetchNewsList(Head(web_sources), outcomes[Head(web_sources).id],
                                has_trafilatura)
         IN  IF r.raised THEN [raised |-> TRUE, items |-> raw]
             ELSE ExtendWithWeb(raw \o r.items, Tail(web_sources), outcomes, has_trafilatura)

\* Steps 1 and 2 of process_news_cycle, and the test that ends the cycle
\* when nothing was fetched.
FetchStage(outcomes, has_trafilatura) ==
    LET
        IsRssType(source) == source.type \in {"rss", "google_news_rss"}
    IN
        LET rss_sources == SelectSeq(SourceConfigs, IsRssType)
            web_sources == SelectSeq(SourceConfigs, IsWebType)
            r == ExtendWithWeb(FetchAll(rss_sources, outcomes), web_sources, outcomes,
                               has_trafilatura)
        IN  [returned |-> TRUE, raised |-> r.raised, raw_items |-> r.items,
             goes_on |-> ~r.raised /\ r.items # <<>>]

SourceIds == {SourceConfigs[i].id : i \in 1..Len(SourceConfigs)}

FetchInit ==
    LET
        FetchCalls ==
            LET
                \* What the HTTP request of one source meets: status 200 with a number of
                \* usable entries, another status, a timeout, or any other exception.
                FetchOutcomes ==
                    {[kind |-> "ok", entries |-> n] : n \in 0..MaxFeedEntries}
                        \cup {[kind |-> k, entries |-> 0] : k \in {"status", "timeout", "error"}}
            IN
                [made : {TRUE}, outcomes : [SourceIds -> FetchOutcomes], has_trafilatura : BOOLEAN]
    IN
        /\ now = 0
        /\ LockVarsInit
        /\ signals = <<>>
        /\ LimitVarsInit
        /\ PipeVarsInit
        /\ CbVarsInit
        /\ noise_filter_enabled = FALSE
        /\ broadcaster = TRUE
        /\ PureVarsInit
        /\ HealthVarsInit
        /\ fetch_call \in FetchCalls
        /\ fetch_ret = NoReturn
        /\ DeliveryVarsInit
        /\ IncidentVarsInit
        /\ FreshVarsInit

FetchReturn ==
    /\ fetch_ret = NoReturn
    /\ fetch_ret' = FetchStage(fetch_call.outcomes, fetch_call.has_trafilatura)
    /\ UNCHANGED <<now, lockVars, signals, limitVars, pipeVars, cbVars, noise_filter_enabled, broadcaster,
                   pureVars, healthVars, fetch_call, deliveryVars, incidentVars, freshVars>>

SpecFetch == FetchInit /\ [][FetchReturn]_vars

\* C31: whatever subset of the sources fails, the fetch stage raises nothing;
\* the fetched list holds, for every source that succeeded, its items in
\* order, and no item of a failed source; and the cycle goes on to the dedup
\* stage whenever that list is not empty.
C31_FetchFailuresIsolated ==
    LET
        \* The items a source yields when its fetch succeeds.
        Succeeded(source) ==
            /\ fetch_call.outcomes[source.id].kind = "ok"
            /\ IsWebType(source) => fetch_call.has_trafilatura

        ItemsFrom(raw, id) == SelectSeq(raw, LAMBDA item : item.source_id = id)
    IN
        fetch_ret # NoReturn =>
            /\ ~fetch_ret.raised
            /\ \A i \in 1..Len(SourceConfigs) :
                  ItemsFrom(fetch_ret.raw_items, SourceConfigs[i].id) =
                      IF Succeeded(SourceConfigs[i])
                        THEN ItemsOf(SourceConfigs[i], fetch_call.outcomes[SourceConfigs[i].id].entries)
                      ELSE <<>>
            /\ fetch_ret.goes_on = (fetch_ret.raw_items # <<>>)

\* One source timed out, another raised, and the third one's items were
\* fetched.
C31_Witness ==
    /\ fetch_ret # NoReturn
    /\ \E a, b, c \in SourceIds :
          /\ fetch_call.outcomes[a].kind = "timeout"
          /\ fetch_call.outcomes[b].kind = "error"
          /\ fetch_call.outcomes[c].kind = "ok"
          /\ fetch_call.outcomes[c].entries = MaxFeedEntries
    /\ fetch_call.outcomes["web_c"].kind # "ok"
    /\ Len(fetch_ret.raw_items) = MaxFeedEntries
    /\ fetch_ret.goes_on

(***************************************************************************)
(* Delivery: Broadcaster (broadcaster.py) and the /start and /stop         *)
(* handlers that write subscribers.is_active (user.py 25-45, 105-114).     *)
(***************************************************************************)
\* What bot.send_message meets for one recipient: delivered; Forbidden;
\* BadRequest "chat not found"; another BadRequest; RetryAfter followed by a
\* delivered or a failed second send; any other exception.
SendOutcomes ==
    {"ok", "forbidden", "chat_not_found", "bad_request", "retry_ok", "retry_failed", "error"}

\* Chat ids in ascending order.
RECURSIVE SortedSeq(_)
SortedSeq(S) ==
    IF S = {} THEN <<>>
    ELSE LET m == CHOOSE x \in S : \A y \in S : x <= y
         IN  <<m>> \o SortedSeq(S \ {m})

\* SubscriberRepository.get_active
GetActive(subs) == SortedSeq({c \in Chats : subs[c] = "active"})

\* One pass of the loop of _send_to_list: Forbidden is the only exception
\* that deactivates; RetryAfter sends once more; everything else, a
\* BadRequest included, falls to `except Exception`.
RECURSIVE SendToList(_, _)
SendToList(recipients, outcomes) ==
    IF recipients = <<>> THEN [sent |-> 0, failed |-> 0, deactivated |-> <<>>, attempted |-> <<>>]
    ELSE LET c == Head(recipients)
             o == outcomes[c]
             rest == SendToList(Tail(recipients), outcomes)
         IN  [sent |-> rest.sent + (IF o \in {"ok", "retry_ok"} THEN 1 ELSE 0),
              failed |-> rest.failed + (IF o \in {"ok", "retry_ok"} THEN 0 ELSE 1),
              deactivated |-> (IF o = "forbidden" THEN <<c>> ELSE <<>>) \o rest.deactivated,
              attempted |-> <<c>> \o rest.attempted]

\* The loop of broadcast: Forbidden and a BadRequest whose text has
\* "chat not found" deactivate.
RECURSIVE BroadcastToList(_, _)
BroadcastToList(recipients, outcomes) ==
    IF recipients = <<>> THEN [sent |-> 0, failed |-> 0, deactivated |-> <<>>, attempted |-> <<>>]
    ELSE LET c == Head(recipients)
             o == outcomes[c]
             rest == BroadcastToList(Tail(recipients), outcomes)
         IN  [sent |-> rest.sent + (IF o \in {"ok", "retry_ok"} THEN 1 ELSE 0),
              failed |-> rest.failed + (IF o \in {"ok", "retry_ok"} THEN 0 ELSE 1),
              deactivated |-> (IF o \in {"forbidden", "chat_not_found"} THEN <<c>> ELSE <<>>)
                                  \o rest.deactivated,
              attempted |-> <<c>> \o rest.attempted]

Range(q) == {q[i] : i \in 1..Len(q)}

\* set_active(chat_id, False) for every chat of the deactivated list.
Deactivate(subs, deactivated) ==
    [c \in Chats |-> IF c \in Range(deactivated) THEN "inactive" ELSE subs[c]]

\* send_signal as process_news_cycle calls it (no exclude list).
SendSignal ==
    LET recipients == GetActive(subscribers)
    IN  /\ recipients # <<>>
        /\ \E outcomes \in [Range(recipients) -> SendOutcomes] :
              LET r == SendToList(recipients, outcomes)
              IN  /\ subscribers' = Deactivate(subscribers, r.deactivated)
                  /\ bc_last' = [op |-> "send_signal", recipients |-> Range(recipients),
                                 outcomes |-> outcomes, attempted |-> Range(r.attempted),
                                 sent |-> r.sent]
        /\ UNCHANGED <<now, lockVars, signals, limitVars, pipeVars, cbVars,
                       noise_filter_enabled, broadcaster, pureVars, healthVars, fetchVars, incidentVars, freshVars>>

Broadcast ==
    LET recipients == GetActive(subscribers)
    IN  /\ recipients # <<>>
        /\ \E outcomes \in [Range(recipients) -> SendOutcomes] :
              LET r == BroadcastToList(recipients, outcomes)
              IN  /\ subscribers' = Deactivate(subscribers, r.deactivated)
                  /\ bc_last' = [op |-> "broadcast", recipients |-> Range(recipients),
                                 outcomes |-> outcomes, attempted |-> Range(r.attempted),
                                 sent |-> r.sent]
        /\ UNCHANGED <<now, lockVars, signals, limitVars, pipeVars, cbVars,
                       noise_filter_enabled, broadcaster, pureVars, healthVars, fetchVars, incidentVars, freshVars>>

\* /start: get_or_create makes an active row; an existing inactive row is
\* set active again.
CmdStart(c) ==
    /\ subscribers[c] # "active"
    /\ subscribers' = [subscribers EXCEPT ![c] = "active"]
    /\ bc_last' = NoDelivery
    /\ UNCHANGED <<now, lockVars, signals, limitVars, pipeVars, cbVars,
                   noise_filter_enabled, broadcaster, pureVars, healthVars, fetchVars, incidentVars, freshVars>>

\* /stop
CmdStop(c) ==
    /\ subscribers[c] = "active"
    /\ subscribers' = [subscribers EXCEPT ![c] = "inactive"]
    /\ bc_last' = NoDelivery
    /\ UNCHANGED <<now, lockVars, signals, limitVars, pipeVars, cbVars,
                   noise_filter_enabled, broadcaster, pureVars, healthVars, fetchVars, incidentVars, freshVars>>

DeliveryNext ==
    \/ SendSignal
    \/ Broadcast
    \/ \E c \in Chats : CmdStart(c)
    \/ \E c \in Chats : CmdStop(c)

DeliveryInit ==
    /\ now = 0
    /\ LockVarsInit
    /\ signals = <<>>
    /\ LimitVarsInit
    /\ PipeVarsInit
    /\ CbVarsInit
    /\ noise_filter_enabled = FALSE
    /\ broadcaster = TRUE
    /\ PureVarsInit
    /\ HealthVarsInit
    /\ EdgeVarsInit

SpecDelivery == DeliveryInit /\ [][DeliveryNext]_vars

\* C32 (as claimed): after the delivery of a signal, every recipient whose
\* send failed with Forbidden or with "chat not found" is inactive, every
\* other recipient is still active, and a send was attempted to every
\* recipient.
C32_SignalDeliveryDeactivates ==
    bc_last.op = "send_signal" =>
        /\ \A c \in bc_last.recipients :
              IF bc_last.outcomes[c] \in {"forbidden", "chat_not_found"}
                THEN subscribers[c] = "inactive"
              ELSE subscribers[c] = "active"
        /\ bc_last.attempted = bc_last.recipients

(***************************************************************************)
(* Incident clustering: IncidentManager.process_signal (incident.py 9-48)  *)
(* over IncidentRepository (repo.py 821-874).  A call is one transaction   *)
(* and one step.  No code sets an incident's status after its creation.    *)
(***************************************************************************)
MaxIncidents == 2
MaxIncidentSignals == 3
MaxIncidentNow == 2160

IncidentWindowHours == 24

IncidentRegions == {"Moscow", "Kazan"}
IncidentEventTypes == {"accident", "repair"}

\* find_open_similar with the region test left out.
FindOpenSimilarAnyRegion(rows, region, event_type, hours, t) ==
    LET cutoff == t - hours * 60
        hits == {i \in 1..Len(rows) : /\ rows[i].status = "open"
                                      /\ rows[i].event_type = event_type
                                      /\ rows[i].updated_at >= cutoff}
    IN  IF hits = {} THEN {}
        ELSE {i \in hits : \A j \in hits : rows[j].updated_at <= rows[i].updated_at}

\* find_open_similar: the ids the query can return (its first row in the
\* order updated_at desc; rows with equal updated_at come in any order);
\* empty = None.
FindOpenSimilar(rows, region, event_type, hours, t) ==
    LET cutoff == t - hours * 60
        hits == {i \in 1..Len(rows) : /\ rows[i].status = "open"
                                      /\ rows[i].region = region
                                      /\ rows[i].event_type = event_type
                                      /\ rows[i].updated_at >= cutoff}
    IN  IF hits = {} THEN {}
        ELSE {i \in hits : \A j \in hits : rows[j].updated_at <= rows[i].updated_at}

\* IncidentRepository.create
CreateIncident(region, event_type, t) ==
    [region |-> region, event_type |-> event_type, status |-> "open", signals_count |-> 1,
     updated_at |-> t]

\* IncidentRepository.increment_signal
IncrementSignal(rows, id, t) ==
    [rows EXCEPT ![id] = [@ EXCEPT !.signals_count = @ + 1, !.updated_at = t]]

ProcessSignal(region, event_type) ==
    LET found == FindOpenSimilar(incidents, region, event_type, IncidentWindowHours, now)
    IN  /\ IF found # {}
             THEN \E id \in found :
                     /\ incidents[id].signals_count < MaxIncidentSignals
                     /\ incidents' = IncrementSignal(incidents, id, now)
                     /\ inc_attached' = [inc_attached EXCEPT ![id] = @ + 1]
                     /\ inc_last' = [made |-> TRUE, region |-> region,
                                     event_type |-> event_type, id |-> id]
           ELSE /\ Len(incidents) < MaxIncidents
                /\ incidents' = Append(incidents, CreateIncident(region, event_type, now))
                /\ inc_attached' = Append(inc_attached, 1)
                /\ inc_last' = [made |-> TRUE, region |-> region, event_type |-> event_type,
                                id |-> Len(incidents) + 1]
        /\ UNCHANGED <<now, lockVars, signals, limitVars, pipeVars, cbVars,
                       noise_filter_enabled, broadcaster, pureVars, healthVars, fetchVars, deliveryVars, freshVars>>

\* Time passes: half a window.
IncidentTick ==
    /\ now < MaxIncidentNow
    /\ now' = now + (IncidentWindowHours * 60) \div 2
    /\ inc_last' = NoCall
    /\ UNCHANGED <<incidents, inc_attached, lockVars, signals, limitVars, pipeVars, cbVars,
                   noise_filter_enabled, broadcaster, pureVars, healthVars, fetchVars, deliveryVars, freshVars>>

IncidentNext ==
    \/ \E region \in IncidentRegions, event_type \in IncidentEventTypes :
          ProcessSignal(region, event_type)
    \/ IncidentTick

IncidentInit ==
    /\ now = 0
    /\ LockVarsInit
    /\ signals = <<>>
    /\ LimitVarsInit
    /\ PipeVarsInit
    /\ CbVarsInit
    /\ noise_filter_enabled = FALSE
    /\ broadcaster = TRUE
    /\ PureVarsInit
    /\ HealthVarsInit
    /\ EdgeVarsInit

SpecIncident == IncidentInit /\ [][IncidentNext]_vars

\* The open incidents of a region and event type updated in the 24 hours
\* before t.
OpenInWindow(rows, region, event_type, t) ==
    {i \in 1..Len(rows) : /\ rows[i].status = "open"
                          /\ rows[i].region = region
                          /\ rows[i].event_type = event_type
                          /\ t - rows[i].updated_at <= IncidentWindowHours * 60}

\* C33: a call of process_signal returns the open incident of its region and
\* event type updated within the last 24 hours, whose signals_count grows by
\* one, and creates an incident with signals_count 1 when there is none; at
\* most one such incident exists for a region and event type; and every
\* incident's signals_count is the number of calls that returned its id.
C33_IncidentClustering ==
    [][/\ (inc_last'.made /\ inc_last' # inc_last) =>
            LET w == OpenInWindow(incidents, inc_last'.region, inc_last'.event_type, now)
                id == inc_last'.id
            IN  /\ Cardinality(w) <= 1
                /\ w # {} => /\ id \in w
                             /\ Len(incidents') = Len(incidents)
                             /\ incidents'[id].signals_count = incidents[id].signals_count + 1
                /\ w = {} => /\ id = Len(incidents) + 1
                             /\ Len(incidents') = id
                             /\ incidents'[id].signals_count = 1
                             /\ incidents'[id].status = "open"
       /\ \A i \in 1..Len(incidents') : incidents'[i].signals_count = inc_attached'[i]]_vars

\* Three successive signals of one region and event type, each within 24
\* hours of the one before and the last more than 24 hours after the first,
\* went to one incident, while a signal of another region opened its own.
C33_Witness ==
    /\ inc_last.made
    /\ incidents[inc_last.id].signals_count = 3
    /\ now > IncidentWindowHours * 60
    /\ \E j \in 1..Len(incidents) :
          /\ j # inc_last.id
          /\ incidents[j].event_type = incidents[inc_last.id].event_type
          /\ incidents[j].region # incidents[inc_last.id].region

(***************************************************************************)
(* One call of check_freshness (freshness.py 22-101), as main.py 120-127   *)
(* makes it: collected_at is the moment of the call.                       *)
(***************************************************************************)
FreshnessInit ==
    LET
        FreshnessCalls ==
            LET
                PublishedDates ==
                    LET
                        \* UTC offsets a feed's date can carry, in minutes.
                        UtcOffsets == {0, 180, -300}

                        \* True ages around the limit, in minutes.
                        TrueAges ==
                            {0, MaxAgeDays * DayMinutes - 60, MaxAgeDays * DayMinutes, MaxAgeDays * DayMinutes + 1,
                             MaxAgeDays * DayMinutes + 60}
                    IN
                        {[present |-> FALSE, age |-> 0, utcoffset |-> 0]}
                            \cup [present : {TRUE}, age : TrueAges, utcoffset : UtcOffsets]
            IN
                [made : {TRUE}, published : PublishedDates, allow_missing_published_at : BOOLEAN,
                 fallback_to_collected_at : BOOLEAN]
    IN
        /\ now = 0
        /\ LockVarsInit
        /\ signals = <<>>
        /\ LimitVarsInit
        /\ PipeVarsInit
        /\ CbVarsInit
        /\ noise_filter_enabled = FALSE
        /\ broadcaster = TRUE
        /\ PureVarsInit
        /\ HealthVarsInit
        /\ fetch_call = NoCall
        /\ fetch_ret = NoReturn
        /\ DeliveryVarsInit
        /\ IncidentVarsInit
        /\ fr_call \in FreshnessCalls
        /\ fr_ret = NoReturn

CheckFreshnessReturn ==
    /\ fr_ret = NoReturn
    /\ fr_ret' = [returned |-> TRUE,
                  result |-> CheckFreshnessWith(fr_call.published, 0, MaxAgeDays,
                                                fr_call.allow_missing_published_at,
                                                fr_call.fallback_to_collected_at)]
    /\ UNCHANGED <<now, lockVars, signals, limitVars, pipeVars, cbVars, noise_filter_enabled, broadcaster,
                   pureVars, healthVars, fetchVars, deliveryVars, incidentVars, fr_call>>

SpecFreshness == FreshnessInit /\ [][CheckFreshnessReturn]_vars

\* C34 (as claimed): the call rejects with STALE_NEWS exactly when
\* published_at is more than max_age_days old; without published_at it
\* passes, with age 0, when both allow_missing_published_at and
\* fallback_to_collected_at are set, and rejects with MISSING_PUBLISHED_AT in
\* every other case.
C34_FreshnessGate ==
    fr_ret # NoReturn =>
        LET r == fr_ret.result
            p == fr_call.published
        IN  /\ (~r.passed /\ r.decision_code = "STALE_NEWS")
                   <=> (p.present /\ p.age > MaxAgeDays * DayMinutes)
            /\ ~p.present =>
                  IF fr_call.allow_missing_published_at /\ fr_call.fallback_to_collected_at
                    THEN r.passed /\ r.age = 0
                  ELSE ~r.passed /\ r.decision_code = "MISSING_PUBLISHED_AT"

(***************************************************************************)
(* The exits of process_news_cycle (main.py 45-57, 82-84, 181-183,         *)
(* 472-476): one instance, cycles whose fetch may give nothing.            *)
(***************************************************************************)
\* `if not raw_items: return` (main.py:82-84), then the finally block.
NothingFetched ==
    /\ pc = "dedup"
    /\ raw_items = <<>>
    /\ FinishCycle
    /\ last_gate' = NoGate
    /\ UNCHANGED <<now, lkpc, lknow, lkbranch, lkres, lkraced, signals, limitVars, news,
                   ticks, broadcasts, cycle_ids, limit_reached_for, cbVars,
                   noise_filter_enabled, broadcaster, pureVars, healthVars, edgeVars>>

CycleExitNext ==
    \/ \E b \in Batches \cup {<<>>} : StartCycle(b, MaxNews)
    \/ NothingFetched
    \/ DedupItem
    \/ PersistRaw
    \/ Classify
    \/ SignalStep

SpecCycleExit == Init /\ [][CycleExitNext]_vars

\* A cycle is between its start and its exit.
Running == pc \notin {"idle", "raised"}

\* C35: while a cycle runs it holds the lock row it acquired, and every step
\* that leaves process_news_cycle, by a return or by an exception, deletes
\* the row.
C35_LockReleasedOnEveryExit ==
    [][/\ Running' => lock'.present
       /\ (Running /\ ~Running') => (lock.present /\ ~lock'.present)
       /\ ~Running' => ~lock'.present]_vars

\* A cycle that had stored rows was left by an exception, after cycles that
\* were left by a return, and the lock row is gone.
C35_Witness ==
    /\ pc = "raised"
    /\ cycle_ids # {}
    /\ ~lock.present
    /\ \E i \in 1..Len(news) : i \notin cycle_ids

\* C36 (as claimed): the release of an instance leaves the lock row alone
\* when the row is held by another instance, which acquired it after the
\* first holder's lock had expired.
C36_ReleaseRespectsOwnership ==
    [][\A p \in Instances :
          (/\ lkpc[p] = "held"
           /\ lkpc'[p] = "done"
           /\ lock.present
           /\ lock.instance_id # p
           /\ LockStillValid(lock, now)) => lock' = lock]_vars

(***************************************************************************)
(* process_news_cycle called with or without a Broadcaster (main.py:27):   *)
(* the same argument for every cycle of a run.                             *)
(***************************************************************************)
EntryPointInit ==
    /\ now = StartNow
    /\ LockVarsInit
    /\ signals = <<>>
    /\ LimitVarsInit
    /\ PipeVarsInit
    /\ CbVarsInit
    /\ noise_filter_enabled = FALSE
    /\ broadcaster \in BOOLEAN
    /\ PureVarsInit
    /\ HealthVarsInit
    /\ EdgeVarsInit

EntryPointNext ==
    \/ \E b \in Batches : StartCycle(b, MaxNews)
    \/ DedupItem
    \/ PersistRaw
    \/ Classify
    \/ SignalStep
    \/ Tick

SpecEntryPoint == EntryPointInit /\ [][EntryPointNext]_vars

\* C37 (as claimed): after a cycle has ended, with or without a broadcaster, a
\* News row has status sent if and only if exactly one Signal row references
\* it.
C37_SentIffSignal ==
    LET
        SignalsOf(id) == {k \in 1..Len(signals) : signals[k].news_id = id}
    IN
        pc = "idle" =>
            \A i \in 1..Len(news) :
                news[i].alive => (news[i].status = "sent" <=> Cardinality(SignalsOf(i)) = 1)

\* C38 (as claimed): when an item is classified, the rows counted for decide
\* (count_today as main.py:352 calls it) and the rows counted by
\* try_create_if_under_limit are the same: those sent in the current day of
\* the application timezone.
C38_ConsistentDayBoundary ==
    LET
        \* The Signal rows counted from a day start.
        RowsSince(start) == {k \in 1..Len(signals) : signals[k].sent_at >= start}
    IN
        pc = "classify" =>
            RowsSince(TodayStartUtc(now, UtcOffsetMinutes))
                = RowsSince(TodayStartUtc(now, AppTzOffsetMinutes))

(***************************************************************************)
(* Cycles that each fetch one article of a story told three times: every   *)
(* text is near the one before it and far from the one before that.        *)
(***************************************************************************)
MaxStoryNews == 3

\* 1, 15 and 127 differ in 3, 3 and 6 bits.
StoryItems ==
    {[url |-> 1, simhash |-> 1], [url |-> 2, simhash |-> 15], [url |-> 3, simhash |-> 127]}

StoryNext ==
    \/ \E item \in StoryItems : StartCycle(<<item>>, MaxStoryNews)
    \/ DedupItem
    \/ PersistRaw
    \/ Classify
    \/ SignalStep

SpecStory == Init /\ [][StoryNext]_vars

\* C39 (as claimed): the row a duplicate's canonical_news_id points to is not
\* itself a duplicate.
C39_CanonicalRowsAreOriginals ==
    \A i \in 1..Len(news) :
        (news[i].alive /\ news[i].status = "duplicate" /\ news[i].canonical_news_id \in 1..Len(news))
            => news[news[i].canonical_news_id].status # "duplicate"

\* C40 (as claimed): while is_open() is true, at least five errors were
\* recorded within the 5 minutes that end at the most recent recorded error.
C40_OpenOnlyOnBurst ==
    LET
        \* The logged errors that lie in the window ending at the most recent one.
        ErrorsInLastWindow ==
            {k \in DOMAIN cb_log : cb_last_error_at - cb_log[k] < CbWindowMinutes}
    IN
        CbIsOpen(cb_is_open, cb_last_error_at, now) =>
            Cardinality(ErrorsInLastWindow) >= CbThreshold

====
